---- MODULE Spec2Model ----
(***************************************************************************)
(* Verification model of the self-evolving capability runtime.             *)
(*                                                                         *)
(* Several state machines share this module:                               *)
(*   Spec       the orchestrator: main's task loop driving run_task of     *)
(*              Agent (agents/runtime/mod.rs, agent.rs) or of RuntimeAgent *)
(*              (runtime_agent.rs) over the CapabilityStore and the        *)
(*              meta.json files on disk;                                   *)
(*   SynthSpec  one synthesis session of MutationAgent and its ToolHandler *)
(*              (mutation_agent/mod.rs, mutation_agent/tools.rs);          *)
(*   RouterSpec capabilities_summary_for_task applied to the catalogs a    *)
(*              load can produce (store.rs, capability_index.rs);          *)
(*   HostSpec   one run_capability invocation and the host functions of    *)
(*              CapabilityRunner (capability_runner.rs);                   *)
(*   CatalogSpec  mark_deprecated and mutate_capability on the catalog;    *)
(*   LoadSpec   CapabilityStore::load on a capabilities root;              *)
(*   PlanSpec   one synthesis by the planner or by CodingAgent;            *)
(*   WriteSpec  write_file of the coder and tester sub-agents;             *)
(*   ChatSpec   one FoundryClient::chat call (foundry_client.rs);          *)
(*   GenSpec    the ids of new capabilities and their directories;         *)
(*   ScaffoldSpec  the directory of a new capability and its load;         *)
(*   CtxSpec    the input items RuntimeAgent::run_task sends.              *)
(* The LLM, the embedder, the guest program, the compiler and the file     *)
(* system are the environment: their answers are drawn with \E.            *)
(***************************************************************************)
EXTENDS Integers, Sequences, FiniteSets, TLC

(***************************************************************************)
(* Bounds of the model.                                                    *)
(***************************************************************************)
\* tool calls carried by one LLM response
MaxCalls == 2
\* failing capability runs and synthesis requests in one run of the program;
\* it also caps the failure counters (unbounded usize in the code)
MaxEvents == 2
\* cap on ToolHandler's consecutive-failure counters (unbounded usize in the code)
MaxStreak == 3

\* width of a guest word in bits; the program's i32 has 32
WordBits == 3
\* bytes in the guest's response buffer; the program's HTTP_BUFFER_SIZE is 1 MiB
HttpBufferSize == 2
\* the largest value of the time stamp in a planner or CodingAgent id; the
\* program's stamps are seconds modulo 10000 and modulo 100000
MaxStamp == 1
\* the largest number of directories with the same base name
MaxVersions == 3

(***************************************************************************)
(* Program constants.                                                      *)
(***************************************************************************)
\* Agent::new / RuntimeAgent::new: max_steps: 12
MaxSteps == 12
\* handle_run_capability: if *count >= 2
FailureThreshold == 2
\* MutationAgent::new: max_steps: 30
SynthMaxSteps == 30
\* main: capabilities_summary_for_task(task, &embedder, 5)
TopK == 5
\* MutationAgent::mutate_capability: self.run_planner(&new_id, parent_id, task, 30)
PlannerMaxSteps == 30
\* CodingAgent::new: max_steps: 30
CodingMaxSteps == 30
\* FoundryClient::chat, Responses mode: for attempt in 1..=3
MaxAttempts == 3

(***************************************************************************)
(* Capability ids.  Every capability directory crates/<id>/ is named after *)
(* the id in its meta.json, as copy_capability and scaffold_capability     *)
(* create them.                                                            *)
(***************************************************************************)
InitialIds == {"a"}
NewIds == {"n1", "n2"}
Ids == InitialIds \cup NewIds

NoId == "none"
\* no meta.json at crates/<id>/meta.json
NoMeta == [status |-> "nofile", replaced_by |-> NoId, reason |-> 0]
\* no record with this id in CapabilityStore.capabilities
NoCap == [status |-> "absent", replaced_by |-> NoId]

\* CapabilityStatus
Active == "active"
Legacy == "legacy"
Deprecated == "deprecated"
\* meta.json written without a "status" key
Unset == "unset"

VARIABLES
    \* ---- orchestrator ----
    agent_kind,       \* which orchestrator runs the tasks: "Agent" or "RuntimeAgent"
    disk,             \* crates/<id>/meta.json: [status, replaced_by, reason] or NoMeta
    store,            \* CapabilityStore.capabilities: id -> [status, replaced_by] or NoCap
    index,            \* CapabilityStore.index: the ids that have an embedding in the index
    failure_counts,   \* Agent.failure_counts (0 = no entry)
    pc,               \* position: "idle" | "llm" | "tools" | "exit"
    step,             \* run_task's loop variable
    pending,          \* call ids of the current response not yet executed, in response order
    response,         \* call ids of the current response, in response order
    exec_log,         \* call ids in the order their handlers were started this turn
    results,          \* call ids of the tool results appended to the conversation this turn
    outcome,          \* what run_task returned: "none" | "answer" | "error"
    llm_requests,     \* LLM requests sent by the current run_task
    only_tool_turns,  \* every response of the current run_task carried tool calls
    last,             \* the tool call just handled and the tool result it produced
    failed_synth,     \* new ids whose synthesis returned an error
    made,             \* new ids a mutate_capability of the current task returned
    prev_failed,      \* ids whose most recent run_capability, in any task, failed
    events,           \* failing runs and synthesis requests so far
    \* ---- synthesis session (MutationAgent, ToolHandler) ----
    synth_pc,         \* "off" | "llm" | "tools" | "done" (Ok(result)) | "failed" (Err)
    synth_step,       \* run_agent_loop's loop variable
    synth_calls,      \* tool calls of the current response not yet handled
    code_written,     \* ToolHandler.code_written
    build_succeeded,  \* ToolHandler.build_succeeded
    test_passed,      \* ToolHandler.test_passed
    consecutive_build_failures,  \* ToolHandler.consecutive_build_failures
    consecutive_test_failures,   \* ToolHandler.consecutive_test_failures
    last_test_error,  \* ToolHandler.last_test_error ("none" = None)
    synth_last,       \* the tool call just handled: [tool, parsed, ready, named]
    built_since_write,   \* a build has succeeded since the last file write
    tested_since_write,  \* a test has passed since the last file write
    \* ---- router ----
    summary,          \* the last capabilities_summary_for_task call: [called, ok, ids, q, k]
    \* ---- one run_capability invocation (CapabilityRunner) ----
    has_memory,       \* the guest module exports "memory"
    guest_mem,        \* the guest's linear memory: address -> byte
    host_call,        \* the host function call the guest makes: [fn, ptr, len, ptr2, len2]
    host_ret,         \* what the host function did: [code, panicked, env]
    host_file,        \* the bytes the last successful file_write put in a host file
    run_result,       \* what run_capability returned: [end, utf8, ok, names_id]
    \* ---- catalog operations ----
    catalog_op,       \* the last catalog operation and its result: [op, id, ok]
    \* ---- loading a capabilities root ----
    has_crates,       \* the capabilities root has a crates/ subdirectory
    root,             \* crates/<dir>/meta.json of each directory: [id, emb], or none
    loaded,           \* what CapabilityStore::load returned: [done, ok, caps, dim, keys]
    \* ---- synthesis by the planner (agents/planner) or by CodingAgent ----
    plan_kind,        \* which pipeline runs: "planner" | "coding_agent"
    plan_pc,          \* "off" | "llm" | "tools" | "done" (Ok(result)) | "failed" (Err)
    plan_step,        \* the loop variable of run_planner / create_capability
    plan_calls,       \* tool calls of the current response not yet handled
    tests_passed,     \* PlannerToolHandler.tests_passed
    wasm_fresh,       \* a WebAssembly build has succeeded since the last source edit
    agent_since_test, \* a coder or tester sub-agent was started since the last test run
    plan_reply,       \* the last response a coder loop handled: [kind, tested, built, appended]
    \* ---- write_file of the coder and tester sub-agents ----
    fsw,              \* the last write_file call: [phase, path, accepted, target], the files written,
                      \* the regular files directly in src/ and run_tester_agent's backup of them
    \* ---- one FoundryClient::chat call ----
    chat,             \* [mode, pc, attempt, statuses, waits, result]
    \* ---- the id of a new capability ----
    gen,              \* [agent, dirs, before, id, ok]: crates/ and the last id derived
    \* ---- scaffolding a capability and loading it back ----
    scaf,             \* [pc, crates, new_id, ok, records]
    \* ---- the conversation RuntimeAgent::run_task sends ----
    ctx               \* [pc, step, input, sent]: the input items kept and the last request

synth_vars == <<synth_pc, synth_step, synth_calls, code_written, build_succeeded,
                test_passed, consecutive_build_failures, consecutive_test_failures,
                last_test_error, synth_last, built_since_write, tested_since_write>>

router_vars == <<summary>>

host_vars == <<has_memory, guest_mem, host_call, host_ret, host_file, run_result>>

cat_vars == <<catalog_op>>

load_vars == <<has_crates, root, loaded>>

plan_vars == <<plan_kind, plan_pc, plan_step, plan_calls, tests_passed, wasm_fresh,
               agent_since_test, plan_reply>>

write_vars == <<fsw>>

chat_vars == <<chat>>

gen_vars == <<gen>>

ext_vars == <<scaf, ctx>>

\* the variables of the specifications of single functions
lib_vars == <<router_vars, host_vars, cat_vars, load_vars, plan_vars, write_vars,
              chat_vars, gen_vars, ext_vars>>

orch_vars == <<agent_kind, store, index, failure_counts, pc, step, pending, response,
               exec_log, results, outcome, llm_requests, only_tool_turns, last,
               failed_synth, made, prev_failed, events>>

vars == <<agent_kind, disk, store, index, failure_counts, pc, step, pending, response,
          exec_log, results, outcome, llm_requests, only_tool_turns, last,
          failed_synth, made, prev_failed, events, synth_vars, lib_vars>>

(***************************************************************************)
(* Registry: meta.json -> CapabilityRecord.                                *)
(***************************************************************************)
\* CapabilityMeta.status is #[serde(default)]: a meta.json without a "status"
\* key is read as CapabilityStatus::Active.
StatusOfMeta(m) == IF m.status = Unset THEN Active ELSE m.status

RecordOfMeta(m) == [status |-> StatusOfMeta(m), replaced_by |-> m.replaced_by]

\* CapabilityRegistry::load_capabilities: one record per directory with a meta.json
LoadCapabilities(d) ==
    [id \in Ids |-> IF d[id] = NoMeta THEN NoCap ELSE RecordOfMeta(d[id])]

IdsOf(caps) == {id \in Ids : caps[id] # NoCap}

\* CapabilityRecord::is_active
IsActive(c) == c.status = Active

(***************************************************************************)
(* Embeddings and the similarity index.  The embedder is a fixed function  *)
(* of the text; vectors are pairs of small integers.                       *)
(***************************************************************************)
Emb(id) ==
    CASE id = "a" -> <<1, 0>>
      [] id = "n1" -> <<1, 1>>
      [] OTHER -> <<1, 0>>

Queries == {<<1, 0>>, <<1, 2>>}

\* the embeddings a task description can get: of the index's dimension, shorter
\* and longer
TaskEmbeddings == Queries \cup {<<1>>, <<1, 2, 1>>}

Min(m, n) == IF m <= n THEN m ELSE n

RECURSIVE ZipDot(_, _, _)
\* the sum of x[i] * y[i] over the first n positions
ZipDot(x, y, n) == IF n = 0 THEN 0 ELSE ZipDot(x, y, n - 1) + x[n] * y[n]

\* for (x, y) in a.iter().zip(b.iter()): the loop of cosine_similarity stops
\* at the end of the shorter vector
Dot(x, y) == ZipDot(x, y, Min(Len(x), Len(y)))

\* na and nb of cosine_similarity: the squares of x over the zipped positions
Norm(x, y) == ZipDot(x, x, Min(Len(x), Len(y)))

Sign(n) == IF n > 0 THEN 1 ELSE IF n < 0 THEN -1 ELSE 0

\* cosine_similarity(q, e) = dot / (sqrt(nq) * sqrt(ne)), and 0.0 when a norm is 0.
\* For one query q the scores of e1 and e2 compare as
\* sign(dot1) * dot1^2 / ne1 and sign(dot2) * dot2^2 / ne2, compared here by
\* cross-multiplication (the norms are positive).
ScoreGE(q, e1, e2) ==
    LET z1 == Norm(q, e1) = 0 \/ Norm(e1, q) = 0
        z2 == Norm(q, e2) = 0 \/ Norm(e2, q) = 0
        d1 == IF z1 THEN 0 ELSE Dot(q, e1)
        d2 == IF z2 THEN 0 ELSE Dot(q, e2)
        n1 == IF z1 THEN 1 ELSE Norm(q, e1) * Norm(e1, q)
        n2 == IF z2 THEN 1 ELSE Norm(q, e2) * Norm(e2, q)
    IN Sign(d1) * d1 * d1 * n2 >= Sign(d2) * d2 * d2 * n1

\* the orderings of a set of ids
Orderings(S) ==
    {f \in [1..Cardinality(S) -> S] : \A i, j \in 1..Cardinality(S) : i # j => f[i] # f[j]}

\* the first k elements of a sequence (Vec::truncate)
Truncate(sq, k) == IF Len(sq) <= k THEN sq ELSE SubSeq(sq, 1, k)

\* CapabilityIndex::nearest_from_embedding: score every indexed id, sort by
\* descending score, truncate to k.  The index is a HashMap, so ids with equal
\* scores come in any order.
NearestFromEmbedding(idx, q, k) ==
    {Truncate(f, k) : f \in {g \in Orderings(idx) :
        \A i, j \in 1..Cardinality(idx) : i < j => ScoreGE(q, Emb(g[i]), Emb(g[j]))}}

\* a summary that surfaces every neighbour, whatever its status
FilterActive_KeepAll(caps, sq) == sq

\* the filter of capabilities_summary_for_task: keep the ids whose store
\* record exists and is active
FilterActive(caps, sq) == SelectSeq(sq, LAMBDA id : caps[id] # NoCap /\ IsActive(caps[id]))

\* CapabilityIndex.dim: the length of the indexed embeddings, dim.unwrap_or(0)
IndexDim(idx) == IF idx = {} THEN 0 ELSE Len(Emb(CHOOSE id \in idx : TRUE))

\* a query vector of any length is scored against the index
QueryDimMatches_Any(dim, len) == TRUE

\* if self.dim != query_emb.len() { bail!("query embedding dimension ...") }
QueryDimMatches(dim, len) == dim = len

\* CapabilityIndex::nearest_for_task after the embedding of the task: the
\* possible Ok results, or the one Err of the dimension check
NearestForTask(idx, q, k) ==
    IF QueryDimMatches(IndexDim(idx), Len(q))
    THEN {[ok |-> TRUE, ids |-> sq] : sq \in NearestFromEmbedding(idx, q, k)}
    ELSE {[ok |-> FALSE, ids |-> <<>>]}

\* CapabilityStore::capabilities_summary_for_task for a task embedding of the
\* index's dimension: the possible active_nearest lists
CapabilitiesSummaryForTask(caps, idx, q, k) ==
    {FilterActive(caps, sq) : sq \in NearestFromEmbedding(idx, q, k)}

\* called: the function has been called; ok: it returned Ok; ids: the ids of
\* active_nearest, which are also the capabilities listed in the prompt summary;
\* q, k: the embedding of the task and the k of the call
Summary(called, ok, ids, q, k) ==
    [called |-> called, ok |-> ok, ids |-> ids, q |-> q, k |-> k]

NoSummary == Summary(FALSE, TRUE, <<>>, <<>>, 0)

(***************************************************************************)
(* The host ABI of CapabilityRunner: integers and guest memory.            *)
(* A guest word is WordBits wide and the host's usize twice as wide, as    *)
(* i32 is to a 64-bit usize; guest memory may be larger than the largest   *)
(* positive word, as a wasm32 memory may exceed 2 GiB.                     *)
(***************************************************************************)
Pow2(n) == 2 ^ n

UsizeBits == 2 * WordBits

MaxWord == Pow2(WordBits - 1) - 1
MinWord == 0 - Pow2(WordBits - 1)

\* memory.data(&caller).len()
MemLen == Pow2(WordBits - 1) + 1

\* the argument values a guest passes
Words == {MinWord, -2, -1, 0, 1, 2, MaxWord}

\* `x as usize` of an i32: sign extension
AsUsize(x) == x % Pow2(UsizeBits)

\* `n as i32` of a usize: truncation to the low word
AsI32(n) ==
    LET m == n % Pow2(WordBits)
    IN  IF m >= Pow2(WordBits - 1) THEN m - Pow2(WordBits) ELSE m

\* usize addition: a build with overflow checks panics on overflow, a build
\* without them wraps
Add(a, b, overflow_checks) ==
    IF a + b >= Pow2(UsizeBits)
    THEN IF overflow_checks
         THEN [panic |-> TRUE, value |-> 0]
         ELSE [panic |-> FALSE, value |-> (a + b) % Pow2(UsizeBits)]
    ELSE [panic |-> FALSE, value |-> a + b]

\* bytes: "a" and "b" are ASCII, "x" is a byte that is not valid UTF-8
NoMemory == <<>>

InitMemories ==
    LET plain == [adr \in 0..(MemLen - 1) |-> "a"]
    IN  {plain} \cup {[plain EXCEPT ![adr] = "x"] : adr \in 0..(MemLen - 1)}

\* String::from_utf8(bytes).is_ok()
Utf8(bytes) == \A i \in 1..Len(bytes) : bytes[i] # "x"

\* a response body or file content of n bytes (a String: valid UTF-8)
Text(n) == [i \in 1..n |-> "b"]

\* let start = ptr as usize; let end = start + len as usize;
\* if end > data.len() { return code }; data[start..end].to_vec()
GuestRange(mem, ptr, len, overflow_checks) ==
    LET start == AsUsize(ptr)
        sum == Add(start, AsUsize(len), overflow_checks)
    IN  IF sum.panic THEN [kind |-> "panic", bytes |-> <<>>]
        ELSE IF sum.value > MemLen THEN [kind |-> "bounds", bytes |-> <<>>]
        ELSE IF start > sum.value THEN [kind |-> "panic", bytes |-> <<>>]
        ELSE [kind |-> "ok",
              bytes |-> [i \in 1..(sum.value - start) |-> mem[start + i - 1]]]

\* let start = result_ptr as usize; let end = start + bytes.len();
\* if end > data.len() { return code }; data[start..end].copy_from_slice(bytes)
GuestWrite(mem, ptr, bytes, overflow_checks) ==
    LET start == AsUsize(ptr)
        sum == Add(start, Len(bytes), overflow_checks)
    IN  IF sum.panic THEN [kind |-> "panic", mem |-> mem]
        ELSE IF sum.value > MemLen THEN [kind |-> "bounds", mem |-> mem]
        ELSE IF start > sum.value THEN [kind |-> "panic", mem |-> mem]
        ELSE [kind |-> "ok",
              mem |-> [adr \in 0..(MemLen - 1) |->
                         IF start <= adr /\ adr < sum.value
                         THEN bytes[adr - start + 1] ELSE mem[adr]]]

\* a host function call: ptr/len name the url or path, ptr2 the result buffer
\* (http_get, file_read) or the content (file_write, with len2 its length)
Call(fn, ptr, len, ptr2, len2) ==
    [fn |-> fn, ptr |-> ptr, len |-> len, ptr2 |-> ptr2, len2 |-> len2]

NoCall == Call("none", 0, 0, 0, 0)

HostCalls ==
    {Call(fn, p, l, r, 0) : fn \in {"http_get", "file_read"},
                            p \in Words, l \in Words, r \in Words}
    \cup {Call("file_write", p, l, r, n) : p \in Words, l \in Words,
                                           r \in Words, n \in Words}

\* what the network or the file system answers: kind, and the length of the
\* body or content where there is one
Env(kind, n) == [kind |-> kind, n |-> n]

HttpEnvs ==
    {Env("request_error", 0), Env("text_error", 0)}
    \cup {Env("ok", n) : n \in 0..MemLen}

FileReadEnvs ==
    {Env("not_found", 0), Env("permission_denied", 0), Env("other", 0)}
    \cup {Env("ok", n) : n \in 0..MemLen}

FileWriteEnvs == {Env("ok", 0), Env("permission_denied", 0), Env("other", 0)}

NoFile == [written |-> FALSE, bytes |-> <<>>]

\* the effect of a host function: its return code, or a panic; the guest
\* memory and the host file it leaves
Effect(code, panicked, mem, file) ==
    [code |-> code, panicked |-> panicked, mem |-> mem, file |-> file]

\* host::http_get(url_ptr, url_len, result_ptr)
HttpGet(hm, mem, c, env, oc) ==
    IF ~hm THEN Effect(-1, FALSE, mem, NoFile)
    ELSE LET url == GuestRange(mem, c.ptr, c.len, oc)
         IN  IF url.kind = "panic" THEN Effect(0, TRUE, mem, NoFile)
             ELSE IF url.kind = "bounds" THEN Effect(-2, FALSE, mem, NoFile)
             ELSE IF ~Utf8(url.bytes) THEN Effect(-3, FALSE, mem, NoFile)
             ELSE IF env.kind = "request_error" THEN Effect(-4, FALSE, mem, NoFile)
             ELSE IF env.kind = "text_error" THEN Effect(-5, FALSE, mem, NoFile)
             ELSE LET w == GuestWrite(mem, c.ptr2, Text(env.n), oc)
                  IN  IF w.kind = "panic" THEN Effect(0, TRUE, mem, NoFile)
                      ELSE IF w.kind = "bounds" THEN Effect(-6, FALSE, mem, NoFile)
                      ELSE Effect(AsI32(env.n), FALSE, w.mem, NoFile)

\* host::file_read(path_ptr, path_len, result_ptr)
FileRead(hm, mem, c, env, oc) ==
    IF ~hm THEN Effect(-1, FALSE, mem, NoFile)
    ELSE LET path == GuestRange(mem, c.ptr, c.len, oc)
         IN  IF path.kind = "panic" THEN Effect(0, TRUE, mem, NoFile)
             ELSE IF path.kind = "bounds" THEN Effect(-2, FALSE, mem, NoFile)
             ELSE IF ~Utf8(path.bytes) THEN Effect(-3, FALSE, mem, NoFile)
             ELSE IF env.kind = "not_found" THEN Effect(-4, FALSE, mem, NoFile)
             ELSE IF env.kind = "permission_denied" THEN Effect(-5, FALSE, mem, NoFile)
             ELSE IF env.kind = "other" THEN Effect(-6, FALSE, mem, NoFile)
             ELSE LET w == GuestWrite(mem, c.ptr2, Text(env.n), oc)
                  IN  IF w.kind = "panic" THEN Effect(0, TRUE, mem, NoFile)
                      ELSE IF w.kind = "bounds" THEN Effect(-7, FALSE, mem, NoFile)
                      ELSE Effect(AsI32(env.n), FALSE, w.mem, NoFile)

\* host::file_write(path_ptr, path_len, content_ptr, content_len)
FileWrite(hm, mem, c, env, oc) ==
    IF ~hm THEN Effect(-1, FALSE, mem, NoFile)
    ELSE LET path == GuestRange(mem, c.ptr, c.len, oc)
         IN  IF path.kind = "panic" THEN Effect(0, TRUE, mem, NoFile)
             ELSE IF path.kind = "bounds" THEN Effect(-2, FALSE, mem, NoFile)
             ELSE IF ~Utf8(path.bytes) THEN Effect(-3, FALSE, mem, NoFile)
             ELSE LET content == GuestRange(mem, c.ptr2, c.len2, oc)
                  IN  IF content.kind = "panic" THEN Effect(0, TRUE, mem, NoFile)
                      ELSE IF content.kind = "bounds" THEN Effect(-4, FALSE, mem, NoFile)
                      ELSE IF env.kind = "ok"
                           THEN Effect(0, FALSE, mem,
                                       [written |-> TRUE, bytes |-> content.bytes])
                      ELSE IF env.kind = "permission_denied"
                           THEN Effect(-5, FALSE, mem, NoFile)
                      ELSE Effect(-6, FALSE, mem, NoFile)

\* what the host function did with the call: done, its return code or panic,
\* and what the network or file system answered
HostRet(done, code, panicked, env) ==
    [done |-> done, code |-> code, panicked |-> panicked, env |-> env]

NoRet == HostRet(FALSE, 0, FALSE, Env("none", 0))

\* how the guest ended and what run_capability returned for it
RunResult(end, utf8, ok, names_id) ==
    [end |-> end, utf8 |-> utf8, ok |-> ok, names_id |-> names_id]

NoRun == RunResult("none", TRUE, FALSE, FALSE)

\* no capability is running
HostOff ==
    /\ has_memory = FALSE
    /\ guest_mem = NoMemory
    /\ host_call = NoCall
    /\ host_ret = NoRet
    /\ host_file = NoFile
    /\ run_result = NoRun

\* a catalog operation: mark_deprecated(id) or a synthesis of id, and
\* whether it returned Ok
CatalogOp(op, id, ok) == [op |-> op, id |-> id, ok |-> ok]

NoCatalogOp == CatalogOp("none", NoId, TRUE)

CatalogOff == catalog_op = NoCatalogOp

\* directories under crates/
Dirs == {"d1", "d2", "d3"}

\* lengths of embedding vectors
EmbDims == {1, 2}

\* "embedding" absent from meta.json (None)
NoEmb == 0

\* a directory without meta.json, and one whose meta.json does not parse
NoDirMeta == [id |-> NoId, emb |-> NoEmb, kind |-> "none"]
Malformed == [id |-> NoId, emb |-> NoEmb, kind |-> "malformed"]

\* what CapabilityStore::load returned: Ok with the catalog (ids and embedding
\* lengths, in Vec order), the index dimension and the index keys, or Err
Loaded(done, ok, caps, dim, keys) ==
    [done |-> done, ok |-> ok, caps |-> caps, dim |-> dim, keys |-> keys]

NoLoad == Loaded(FALSE, FALSE, <<>>, 0, {})

LoadOff ==
    /\ has_crates = TRUE
    /\ root = [d \in Dirs |-> NoDirMeta]
    /\ loaded = NoLoad

\* no write_file call has been made
NoFsw ==
    [phase |-> "none", path |-> <<>>, accepted |-> FALSE, target |-> <<>>, written |-> {},
     src |-> <<>>, backup |-> <<>>]

WriteOff == fsw = NoFsw

\* no chat call is in progress
NoChat ==
    [mode |-> "none", pc |-> "off", attempt |-> 0, statuses |-> <<>>, waits |-> <<>>,
     result |-> "none"]

ChatOff == chat = NoChat

\* no id has been generated
NoGen == [agent |-> "none", dirs |-> {}, before |-> {}, id |-> <<>>, ok |-> FALSE]

GenOff == gen = NoGen

\* nothing has been scaffolded
NoScaf == [pc |-> "off", crates |-> <<>>, new_id |-> "", ok |-> FALSE, records |-> <<>>]

\* no RuntimeAgent conversation is running
NoCtx == [pc |-> "off", step |-> 0, input |-> <<>>, sent |-> <<>>]

ExtOff == scaf = NoScaf /\ ctx = NoCtx

\* how a coder loop handled a response (or, kind "coder_done", how the coder
\* sub-agent returned Ok on DONE; kind "tool", any other tool call): whether
\* cargo test passed and the WebAssembly build succeeded while handling it,
\* and whether a user message was pushed for the next request
Reply(kind, tested, built, appended) ==
    [kind |-> kind, tested |-> tested, built |-> built, appended |-> appended]

NoReply == Reply("none", FALSE, FALSE, FALSE)

\* no planner or CodingAgent synthesis is running
PlanOff ==
    /\ plan_kind = "planner"
    /\ plan_pc = "off"
    /\ plan_step = 0
    /\ plan_calls = 0
    /\ tests_passed = FALSE
    /\ wasm_fresh = FALSE
    /\ agent_since_test = FALSE
    /\ plan_reply = NoReply

(***************************************************************************)
(* CapabilityStore::mark_deprecated.                                       *)
(***************************************************************************)
\* the in-memory update, made first
MarkDeprecatedStore(caps, id) ==
    IF caps[id] # NoCap THEN [caps EXCEPT ![id].status = Deprecated] ELSE caps

\* the meta.json update: skipped when the id is unknown, when meta.json does
\* not exist, or when reading or writing it fails (fs_ok = FALSE)
MarkDeprecatedDisk(caps, d, id, reason, fs_ok) ==
    IF caps[id] = NoCap \/ d[id] = NoMeta \/ ~fs_ok
    THEN d
    ELSE [d EXCEPT ![id].status = Deprecated, ![id].reason = reason]

(***************************************************************************)
(* CapabilityOps (and CodingAgent) writes to meta.json.                    *)
(***************************************************************************)
\* copy_capability / scaffold_capability: {id, summary, binary}, no "status" key
ScaffoldMeta == [status |-> Unset, replaced_by |-> NoId, reason |-> 0]

\* CapabilityOps::update_meta_json: rewrites the file with "status": "active"
UpdateMetaJson(d, id) ==
    [d EXCEPT ![id] = [status |-> Active, replaced_by |-> NoId, reason |-> 0]]

\* CodingAgent::update_meta: rewrites the file with {id, summary, binary} only
UpdateMeta(d, id) ==
    [d EXCEPT ![id] = [status |-> Unset, replaced_by |-> NoId, reason |-> 0]]

\* CapabilityOps::mark_as_legacy: an error (ignored by its callers) when the
\* file is missing or cannot be read or written
MarkAsLegacy(d, id, by, fs_ok) ==
    IF d[id] = NoMeta \/ ~fs_ok
    THEN d
    ELSE [d EXCEPT ![id].status = Legacy, ![id].replaced_by = by]


(***************************************************************************)
(* The orchestrator.                                                       *)
(***************************************************************************)
AgentKinds == {"Agent", "RuntimeAgent"}

\* op: the tool; id: the capability it ran or created; ret: "ok" (the handler
\* returned Ok(result)) or "err" (it returned Err); kind and tally: what the
\* result string says ("output", or "error" with the failure tally it reports)
Last(op, id, ret, kind, tally) ==
    [op |-> op, id |-> id, ret |-> ret, kind |-> kind, tally |-> tally]

NoLast == Last("none", NoId, "ok", "none", 0)

\* the call ids of a response with n tool calls, in response order
CallIds(n) == [i \in 1..n |-> i]

\* a tool loop that takes the calls from the back of the list
NextCall_Last(p) == p[Len(p)]

\* the call the tool loop takes next: `for tc in tool_calls`
NextCall(p) == Head(p)

\* a loop that runs once more: `0..=self.max_steps`
LoopRuns_Inclusive(s) == s <= MaxSteps

\* run_task's loop: `for step in 0..self.max_steps`
LoopRuns(s) == s < MaxSteps

\* the per-turn bookkeeping after a handler returned Ok(result): the result is
\* pushed with the id of the call just handled; after the last call of the
\* response the loop continues with the next step
Appended(call_id) ==
    /\ exec_log' = Append(exec_log, call_id)
    /\ results' = Append(results, call_id)
    /\ pending' = Tail(pending)
    /\ IF Tail(pending) = <<>>
       THEN pc' = "llm" /\ step' = step + 1
       ELSE pc' = "tools" /\ step' = step
    /\ UNCHANGED <<outcome, response, llm_requests, only_tool_turns>>

\* run_task returns: its locals are dropped
Returned(result) ==
    /\ pc' = "idle"
    /\ outcome' = result
    /\ step' = 0
    /\ pending' = <<>>
    /\ response' = <<>>
    /\ exec_log' = <<>>
    /\ results' = <<>>

\* the handler returned Err: `?` makes run_task return the error at once
Aborted ==
    /\ Returned("error")
    /\ UNCHANGED <<llm_requests, only_tool_turns>>

\* tool: the tool called; parsed: its arguments parsed; ready: both gates
\* (build_succeeded, test_passed) were true when the call arrived
\* named: the steps the tool result of a refused complete() lists as missing
\* ran: "no", or how the cargo build / the test run the call started ended
\* ("ok" | "failed"); hint: the tool result carries the enriched
\* loop-detection text
SynthLast(tool, parsed, ready, named) ==
    [tool |-> tool, parsed |-> parsed, ready |-> ready, named |-> named,
     ran |-> "no", hint |-> FALSE]

\* if self.consecutive_build_failures >= 3 / if self.consecutive_test_failures >= 3
LoopHintThreshold == 3

LoopHint(failures) == failures >= LoopHintThreshold

\* a SynthLast of a build or test that ran
SynthRan(tool, ran, failures) ==
    [SynthLast(tool, TRUE, FALSE, {}) EXCEPT !.ran = ran,
                                              !.hint = ran = "failed" /\ LoopHint(failures)]

\* handle_write_file leaves both failure counters alone
StreakAfterWrite_Reset(failures) == 0

StreakAfterWrite(failures) == failures

\* try_complete's `missing`: "build (...)" when !build_succeeded, "test (...)"
\* when !test_passed
MissingSteps(b, t) ==
    (IF ~b THEN {"build_succeeded"} ELSE {}) \cup (IF ~t THEN {"test_passed"} ELSE {})

NoSynthLast == SynthLast("none", TRUE, FALSE, {})

\* no synthesis session is being stepped: ToolHandler::new
SynthOff ==
    /\ synth_pc = "off"
    /\ synth_step = 0
    /\ synth_calls = 0
    /\ code_written = FALSE
    /\ build_succeeded = FALSE
    /\ test_passed = FALSE
    /\ consecutive_build_failures = 0
    /\ consecutive_test_failures = 0
    /\ last_test_error = "none"
    /\ synth_last = NoSynthLast
    /\ built_since_write = FALSE
    /\ tested_since_write = FALSE

Init ==
    /\ agent_kind \in AgentKinds
    /\ disk = [id \in Ids |->
                 IF id = "a" THEN [status |-> Unset, replaced_by |-> NoId, reason |-> 0]
                 ELSE NoMeta]
    /\ store = LoadCapabilities(disk)
    /\ index = IdsOf(store)
    /\ failure_counts = [id \in Ids |-> 0]
    /\ pc = "idle"
    /\ step = 0
    /\ pending = <<>>
    /\ response = <<>>
    /\ exec_log = <<>>
    /\ results = <<>>
    /\ outcome = "none"
    /\ llm_requests = 0
    /\ only_tool_turns = TRUE
    /\ last = NoLast
    /\ failed_synth = {}
    /\ made = {}
    /\ prev_failed = {}
    /\ events = 0
    /\ SynthOff
    /\ summary = NoSummary
    /\ HostOff
    /\ CatalogOff
    /\ LoadOff
    /\ PlanOff
    /\ WriteOff
    /\ ChatOff
    /\ GenOff
    /\ ExtOff

\* main's loop body up to run_task's first request: route the task, build a
\* fresh agent (empty failure_counts) and enter run_task.  An embedding error
\* on the task makes main return.
StartTask ==
    /\ pc = "idle"
    /\ \E embed_ok \in BOOLEAN, q \in Queries :
         IF embed_ok
         THEN /\ CapabilitiesSummaryForTask(store, index, q, TopK) # {}
              /\ pc' = "llm"
         ELSE /\ q = <<1, 0>>
              /\ pc' = "exit"
    /\ failure_counts' = [id \in Ids |-> 0]
    /\ step' = 0
    /\ pending' = <<>>
    /\ response' = <<>>
    /\ exec_log' = <<>>
    /\ results' = <<>>
    /\ outcome' = "none"
    /\ llm_requests' = 0
    /\ only_tool_turns' = TRUE
    /\ last' = NoLast
    /\ made' = {}
    /\ UNCHANGED <<agent_kind, disk, store, index, failed_synth, prev_failed, events>>
    /\ UNCHANGED <<synth_vars, lib_vars>>

\* one iteration of run_task up to the dispatch on the response: send the
\* request; a transport error ends the task; a response with tool calls starts
\* the tool loop; a plain message is the final answer
LlmRespond ==
    /\ pc = "llm"
    /\ LoopRuns(step)
    /\ llm_requests' = llm_requests + 1
    /\ \E kind \in {"transport_error", "tool_calls", "message", "empty"}, n \in 0..MaxCalls :
         CASE kind = "transport_error" ->
                /\ n = 0
                /\ Returned("error")
                /\ only_tool_turns' = FALSE
           [] kind = "tool_calls" ->
                \* Agent: tool_calls is Some(vec), possibly empty.  RuntimeAgent:
                \* has_function_calls() needs at least one call.
                /\ agent_kind = "RuntimeAgent" => n >= 1
                /\ response' = CallIds(n)
                /\ pending' = CallIds(n)
                /\ exec_log' = <<>>
                /\ results' = <<>>
                /\ IF n = 0 THEN pc' = "llm" /\ step' = step + 1
                            ELSE pc' = "tools" /\ step' = step
                /\ UNCHANGED <<outcome, only_tool_turns>>
           [] kind = "message" ->
                /\ n = 0
                /\ Returned("answer")
                /\ only_tool_turns' = FALSE
           [] kind = "empty" ->
                \* RuntimeAgent only: neither a function call nor a text item
                /\ n = 0
                /\ agent_kind = "RuntimeAgent"
                /\ step' = step + 1
                /\ only_tool_turns' = FALSE
                /\ UNCHANGED <<pc, outcome, pending, response, exec_log, results>>
    /\ last' = NoLast
    /\ UNCHANGED <<agent_kind, disk, store, index, failure_counts,
                   failed_synth, made, prev_failed, events>>
    /\ UNCHANGED <<synth_vars, lib_vars>>

\* the loop ran max_steps times without a final answer: bail
MaxStepsReached ==
    /\ pc = "llm"
    /\ ~LoopRuns(step)
    /\ Returned("error")
    /\ UNCHANGED <<agent_kind, disk, store, index, failure_counts,
                   llm_requests, only_tool_turns, last,
                   failed_synth, made, prev_failed, events>>
    /\ UNCHANGED <<synth_vars, lib_vars>>

\* bookkeeping that records a failure without adding to the earlier ones
CountAfterFailure_Restart(fc, id) == 1

\* the failure bookkeeping of Agent::handle_run_capability's Err arm
CountAfterFailure(fc, id) == fc[id] + 1

\* the deprecation test of the Err arm
ReachedThreshold(count) == count >= FailureThreshold

\* the tally in the tool result of a failed run: Agent reports
\* "Failures: <count>/2 before deprecation", RuntimeAgent only "ERROR: <e>"
FailureTally(kind, count) == IF kind = "Agent" THEN count ELSE 0

\* handle_tool_call -> handle_run_capability (Agent), handle_tool's
\* "run_capability" arm (RuntimeAgent)
HandleRunCapability ==
    /\ pc = "tools"
    /\ \E args_ok \in BOOLEAN, id \in Ids, run_ok \in BOOLEAN, fs_ok \in BOOLEAN :
         IF ~args_ok \/ store[id] = NoCap
         THEN \* malformed arguments or unknown capability id: Err
              /\ run_ok /\ fs_ok
              /\ ~args_ok => id = "a"
              /\ Aborted
              /\ last' = Last("run_capability", NoId, "err", "none", 0)
              /\ UNCHANGED <<store, disk, failure_counts, prev_failed, events>>
         ELSE IF run_ok
         THEN /\ fs_ok
              /\ Appended(NextCall(pending))
              /\ failure_counts' = IF agent_kind = "Agent"
                                   THEN [failure_counts EXCEPT ![id] = 0]
                                   ELSE failure_counts
              /\ prev_failed' = prev_failed \ {id}
              /\ last' = Last("run_capability", id, "ok", "output", 0)
              /\ UNCHANGED <<store, disk, events>>
         ELSE /\ events < MaxEvents
              /\ events' = events + 1
              /\ prev_failed' = prev_failed \cup {id}
              /\ Appended(NextCall(pending))
              /\ IF agent_kind = "Agent"
                 THEN LET count == CountAfterFailure(failure_counts, id) IN
                      /\ failure_counts' = [failure_counts EXCEPT ![id] = count]
                      /\ IF ReachedThreshold(count)
                         THEN /\ store' = MarkDeprecatedStore(store, id)
                              /\ disk' = MarkDeprecatedDisk(store, disk, id, count, fs_ok)
                         ELSE /\ fs_ok
                              /\ UNCHANGED <<store, disk>>
                      /\ last' = Last("run_capability", id, "ok", "error",
                                      FailureTally(agent_kind, count))
                 ELSE /\ fs_ok
                      /\ last' = Last("run_capability", id, "ok", "error",
                                      FailureTally(agent_kind, 0))
                      /\ UNCHANGED <<failure_counts, store, disk>>
    /\ UNCHANGED <<agent_kind, index, failed_synth, made>>
    /\ UNCHANGED <<synth_vars, lib_vars>>

\* what the synthesis sub-agent did before it returned:
\*   "complete"         complete() accepted, mark_parent_legacy = false
\*   "complete_legacy"  complete() accepted, mark_parent_legacy = true
\*   "auto"             planner fallback: the model said DONE and the tests pass
\*   "fail"             max_steps reached, the agent gave up, or an LLM call failed
SynthOutcomes(kind) ==
    IF kind = "Agent" THEN {"complete", "complete_legacy", "auto", "fail"}
                      ELSE {"complete", "fail"}

\* the meta.json files after the sub-agent returned Ok
DiskAfterSynthesis(kind, d, parent, new_id, synth, fs_ok) ==
    IF kind = "RuntimeAgent" THEN UpdateMeta(d, new_id)
    ELSE IF synth = "complete" THEN UpdateMetaJson(d, new_id)
    ELSE IF synth = "complete_legacy"
         THEN MarkAsLegacy(UpdateMetaJson(d, new_id), parent, new_id, fs_ok)
    ELSE d

\* a reload that keeps the records the store already holds
ReloadedStore_Stale(d) == store

\* CapabilityStore::reload: on success both fields are replaced
ReloadedStore(d) == LoadCapabilities(d)

\* a reload that assigns self.capabilities before the index is built
StoreAfterFailedReload_Assigned(st, d) == LoadCapabilities(d)

\* CapabilityStore::reload returning Err: every `?` and the bail! come before
\* the two assignments
StoreAfterFailedReload(st, d) == st

\* handle_mutate_capability (Agent: copy_capability, planner, reload),
\* handle_tool's "mutate_capability" arm (RuntimeAgent: scaffold_capability,
\* CodingAgent loop, reload)
HandleMutateCapability ==
    /\ pc = "tools"
    /\ \E args_ok \in BOOLEAN, parent \in Ids, new_id \in NewIds,
          synth \in SynthOutcomes(agent_kind), fs_ok \in BOOLEAN, reload_ok \in BOOLEAN :
         LET created == [disk EXCEPT ![new_id] = ScaffoldMeta]
             final == DiskAfterSynthesis(agent_kind, created, parent, new_id, synth, fs_ok)
         IN
         /\ agent_kind = "RuntimeAgent" => parent = "a"
         /\ synth # "complete_legacy" => fs_ok
         /\ IF \/ ~args_ok
               \/ agent_kind = "Agent" /\ disk[parent] = NoMeta
               \/ disk[new_id] # NoMeta
            THEN \* malformed arguments, parent directory missing, or the
                 \* destination already exists: Err before anything is written
                 /\ synth = "fail" /\ reload_ok
                 /\ Aborted
                 /\ last' = Last("mutate_capability", NoId, "err", "none", 0)
                 /\ UNCHANGED <<disk, store, index, failed_synth, made, events>>
            ELSE IF synth = "fail"
            THEN /\ reload_ok
                 /\ events < MaxEvents
                 /\ events' = events + 1
                 /\ Aborted
                 /\ last' = Last("mutate_capability", new_id, "err", "none", 0)
                 /\ disk' = created
                 /\ failed_synth' = failed_synth \cup {new_id}
                 /\ UNCHANGED <<store, index, made>>
            ELSE IF ~reload_ok
            THEN \* the synthesis succeeded, reload returned Err
                 /\ events < MaxEvents
                 /\ events' = events + 1
                 /\ Aborted
                 /\ last' = Last("mutate_capability", new_id, "err", "none", 0)
                 /\ disk' = final
                 /\ store' = StoreAfterFailedReload(store, final)
                 /\ UNCHANGED <<index, failed_synth, made>>
            ELSE /\ events < MaxEvents
                 /\ events' = events + 1
                 /\ Appended(NextCall(pending))
                 /\ last' = Last("mutate_capability", new_id, "ok", "output", 0)
                 /\ disk' = final
                 /\ store' = ReloadedStore(final)
                 /\ index' = IdsOf(ReloadedStore(final))
                 /\ made' = made \cup {new_id}
                 /\ UNCHANGED failed_synth
    /\ UNCHANGED <<agent_kind, failure_counts, prev_failed>>
    /\ UNCHANGED <<synth_vars, lib_vars>>

\* a tool name other than the two tools: Agent bails, RuntimeAgent answers
\* "Unknown tool: <name>"
HandleUnknownTool ==
    /\ pc = "tools"
    /\ IF agent_kind = "Agent"
       THEN Aborted /\ last' = Last("unknown", NoId, "err", "none", 0)
       ELSE Appended(NextCall(pending)) /\ last' = Last("unknown", NoId, "ok", "output", 0)
    /\ UNCHANGED <<agent_kind, disk, store, index, failure_counts,
                   failed_synth, made, prev_failed, events>>
    /\ UNCHANGED <<synth_vars, lib_vars>>

(***************************************************************************)
(* One synthesis session: MutationAgent::mutate_capability has reset the   *)
(* ToolHandler and copied the parent; run_agent_loop drives the ToolHandler *)
(* until complete() is accepted (Ok) or the session fails (Err).           *)
(***************************************************************************)
SynthNewId == "n1"
SynthParent == "a"

\* the test errors the runner can report
TestErrors == {"e1", "e2"}

\* run_agent_loop: `for step in 0..self.max_steps`
SynthLoopRuns(s) == s < SynthMaxSteps

\* a build that does not ask whether any code was written
BuildAdmissible_Always(cw) == TRUE

\* handle_build: refused unless write_file was called first
BuildAdmissible(cw) == cw

TestAdmissible_Always(b) == TRUE

\* handle_test: refused unless the last build succeeded
TestAdmissible(b) == b

\* try_complete: `missing` is empty
CompleteAdmissible(b, t) == b /\ t

\* a write_file that leaves the gate as it was
GateAfterWrite_Kept(g) == g

\* handle_write_file: self.build_succeeded = false; self.test_passed = false
GateAfterWrite(g) == FALSE

\* the tool call was answered with a tool result: `for tc in tool_calls`
\* goes on, and after the last call the loop continues with the next step
SynthHandled ==
    /\ synth_calls' = synth_calls - 1
    /\ IF synth_calls = 1
       THEN synth_pc' = "llm" /\ synth_step' = synth_step + 1
       ELSE synth_pc' = "tools" /\ synth_step' = synth_step

\* `?` on a handler's Err: run_agent_loop returns the error
SynthFailed ==
    /\ synth_pc' = "failed"
    /\ synth_calls' = 0
    /\ synth_step' = synth_step

SynthInit ==
    /\ agent_kind = "Agent"
    /\ disk = [id \in Ids |->
                 IF id = SynthParent THEN [status |-> Unset, replaced_by |-> NoId, reason |-> 0]
                 ELSE IF id = SynthNewId THEN ScaffoldMeta
                 ELSE NoMeta]
    /\ store = LoadCapabilities([disk EXCEPT ![SynthNewId] = NoMeta])
    /\ index = IdsOf(store)
    /\ failure_counts = [id \in Ids |-> 0]
    /\ pc = "tools"
    /\ step = 0
    /\ pending = <<1>>
    /\ response = <<1>>
    /\ exec_log = <<>>
    /\ results = <<>>
    /\ outcome = "none"
    /\ llm_requests = 1
    /\ only_tool_turns = TRUE
    /\ last = NoLast
    /\ failed_synth = {}
    /\ made = {}
    /\ prev_failed = {}
    /\ events = 0
    /\ synth_pc = "llm"
    /\ synth_step = 0
    /\ synth_calls = 0
    /\ code_written = FALSE
    /\ build_succeeded = FALSE
    /\ test_passed = FALSE
    /\ consecutive_build_failures = 0
    /\ consecutive_test_failures = 0
    /\ last_test_error = "none"
    /\ synth_last = NoSynthLast
    /\ built_since_write = FALSE
    /\ tested_since_write = FALSE
    /\ summary = NoSummary
    /\ HostOff
    /\ CatalogOff
    /\ LoadOff
    /\ PlanOff
    /\ WriteOff
    /\ ChatOff
    /\ GenOff
    /\ ExtOff

\* one iteration of run_agent_loop up to the dispatch on the response
SynthLlmRespond ==
    /\ synth_pc = "llm"
    /\ SynthLoopRuns(synth_step)
    /\ \E kind \in {"transport_error", "tool_calls", "giving_up", "text"}, n \in 0..MaxCalls :
         CASE kind = "transport_error" ->
                \* client.chat failed, or the response has no choices
                /\ n = 0
                /\ SynthFailed
           [] kind = "tool_calls" ->
                /\ synth_calls' = n
                /\ IF n = 0 THEN synth_pc' = "llm" /\ synth_step' = synth_step + 1
                            ELSE synth_pc' = "tools" /\ synth_step' = synth_step
           [] kind = "giving_up" ->
                /\ n = 0
                /\ SynthFailed
           [] kind = "text" ->
                /\ n = 0
                /\ synth_pc' = "llm"
                /\ synth_step' = synth_step + 1
                /\ synth_calls' = 0
    /\ synth_last' = NoSynthLast
    /\ UNCHANGED <<code_written, build_succeeded, test_passed, consecutive_build_failures,
                   consecutive_test_failures, last_test_error, built_since_write,
                   tested_since_write, disk>>
    /\ UNCHANGED <<orch_vars, lib_vars>>

\* bail!("Mutation agent reached max_steps without completing")
SynthMaxStepsReached ==
    /\ synth_pc = "llm"
    /\ ~SynthLoopRuns(synth_step)
    /\ SynthFailed
    /\ UNCHANGED <<code_written, build_succeeded, test_passed, consecutive_build_failures,
                   consecutive_test_failures, last_test_error, synth_last,
                   built_since_write, tested_since_write, disk>>
    /\ UNCHANGED <<orch_vars, lib_vars>>

\* both gates are true
Ready == build_succeeded /\ test_passed

\* ToolHandler::handle_write_file
SynthWriteFile ==
    /\ synth_pc = "tools"
    /\ \E parsed \in BOOLEAN, dir_ok \in BOOLEAN, write_ok \in BOOLEAN :
         /\ synth_last' = SynthLast("write_file", parsed, Ready, {})
         /\ IF ~parsed
            THEN \* "ERROR: Invalid arguments": returned before anything is touched
                 /\ dir_ok /\ write_ok
                 /\ SynthHandled
                 /\ UNCHANGED <<code_written, build_succeeded, test_passed,
                                built_since_write, tested_since_write>>
            ELSE /\ build_succeeded' = GateAfterWrite(build_succeeded)
                 /\ test_passed' = GateAfterWrite(test_passed)
                 /\ code_written' = TRUE
                 /\ built_since_write' = FALSE
                 /\ tested_since_write' = FALSE
                 /\ IF ~dir_ok
                    THEN \* fs::create_dir_all(parent)? returns Err
                         write_ok /\ SynthFailed
                    ELSE \* fs::write: "OK: Wrote ..." or "ERROR: ..."
                         SynthHandled
    /\ consecutive_build_failures' = StreakAfterWrite(consecutive_build_failures)
    /\ consecutive_test_failures' = StreakAfterWrite(consecutive_test_failures)
    /\ UNCHANGED <<last_test_error, disk>>
    /\ UNCHANGED <<orch_vars, lib_vars>>

\* ToolHandler::handle_build
SynthBuild ==
    /\ synth_pc = "tools"
    /\ \E spawned \in BOOLEAN, success \in BOOLEAN :
         IF ~BuildAdmissible(code_written)
         THEN /\ spawned /\ success
              /\ synth_last' = SynthLast("build", TRUE, FALSE, {})
              /\ SynthHandled
              /\ UNCHANGED <<build_succeeded, consecutive_build_failures, built_since_write>>
         ELSE IF ~spawned
         THEN \* .context("failed to run cargo build")?
              /\ success
              /\ synth_last' = SynthLast("build", TRUE, FALSE, {})
              /\ SynthFailed
              /\ UNCHANGED <<build_succeeded, consecutive_build_failures, built_since_write>>
         ELSE IF success
         THEN /\ build_succeeded' = TRUE
              /\ consecutive_build_failures' = 0
              /\ built_since_write' = TRUE
              /\ synth_last' = SynthRan("build", "ok", 0)
              /\ SynthHandled
         ELSE /\ consecutive_build_failures < MaxStreak
              /\ build_succeeded' = FALSE
              /\ consecutive_build_failures' = consecutive_build_failures + 1
              /\ synth_last' = SynthRan("build", "failed", consecutive_build_failures + 1)
              /\ SynthHandled
              /\ UNCHANGED built_since_write
    /\ UNCHANGED <<code_written, test_passed, consecutive_test_failures, last_test_error,
                   tested_since_write, disk>>
    /\ UNCHANGED <<orch_vars, lib_vars>>

\* ToolHandler::handle_test
SynthTest ==
    /\ synth_pc = "tools"
    /\ \E parsed \in BOOLEAN, runnable \in BOOLEAN, res \in {"ok"} \cup TestErrors :
         /\ SynthHandled
         /\ IF ~parsed \/ ~TestAdmissible(build_succeeded)
            THEN \* invalid arguments, or "Run 'build' first"
                 /\ runnable /\ res = "ok"
                 /\ synth_last' = SynthLast("test", parsed, FALSE, {})
                 /\ UNCHANGED <<test_passed, consecutive_test_failures, last_test_error,
                                tested_since_write>>
            ELSE IF ~runnable
            THEN \* the .wasm file is missing or the runner cannot be created
                 /\ res = "ok"
                 /\ synth_last' = SynthLast("test", parsed, FALSE, {})
                 /\ UNCHANGED <<test_passed, consecutive_test_failures, last_test_error,
                                tested_since_write>>
            ELSE IF res = "ok"
            THEN /\ test_passed' = TRUE
                 /\ consecutive_test_failures' = 0
                 /\ last_test_error' = "none"
                 /\ tested_since_write' = TRUE
                 /\ synth_last' = SynthRan("test", "ok", 0)
            ELSE /\ consecutive_test_failures < MaxStreak
                 /\ test_passed' = FALSE
                 /\ consecutive_test_failures' = consecutive_test_failures + 1
                 /\ last_test_error' = res
                 /\ synth_last' = SynthRan("test", "failed", consecutive_test_failures + 1)
                 /\ UNCHANGED tested_since_write
    /\ UNCHANGED <<code_written, build_succeeded, consecutive_build_failures,
                   built_since_write, disk>>
    /\ UNCHANGED <<orch_vars, lib_vars>>

\* MutationAgent::try_complete
SynthComplete ==
    /\ synth_pc = "tools"
    /\ \E parsed \in BOOLEAN, mark_parent_legacy \in BOOLEAN, meta_ok \in BOOLEAN,
          fs_ok \in BOOLEAN :
         /\ synth_last' = SynthLast("complete", parsed, FALSE,
                                    IF parsed THEN MissingSteps(build_succeeded, test_passed)
                                    ELSE {})
         /\ mark_parent_legacy \/ fs_ok
         /\ IF ~parsed \/ ~CompleteAdmissible(build_succeeded, test_passed)
            THEN \* an error tool result is pushed; Ok(None)
                 /\ mark_parent_legacy /\ meta_ok /\ fs_ok
                 /\ SynthHandled
                 /\ UNCHANGED disk
            ELSE IF ~meta_ok
            THEN \* update_meta_json(...)? returns Err
                 /\ mark_parent_legacy /\ fs_ok
                 /\ SynthFailed
                 /\ UNCHANGED disk
            ELSE /\ disk' = IF mark_parent_legacy
                            THEN MarkAsLegacy(UpdateMetaJson(disk, SynthNewId),
                                              SynthParent, SynthNewId, fs_ok)
                            ELSE UpdateMetaJson(disk, SynthNewId)
                 /\ synth_pc' = "done"
                 /\ synth_calls' = 0
                 /\ synth_step' = synth_step
    /\ UNCHANGED <<code_written, build_succeeded, test_passed, consecutive_build_failures,
                   consecutive_test_failures, last_test_error, built_since_write,
                   tested_since_write>>
    /\ UNCHANGED <<orch_vars, lib_vars>>

\* ToolHandler::handle for web_search, http_get, read_file, cargo_run,
\* rustc_explain and unknown tool names: no field of the handler changes;
\* cargo_run returns Err when cargo or the binary cannot be started
SynthOtherTool ==
    /\ synth_pc = "tools"
    /\ synth_last' = SynthLast("other", TRUE, FALSE, {})
    /\ \E ok \in BOOLEAN : IF ok THEN SynthHandled ELSE SynthFailed
    /\ UNCHANGED <<code_written, build_succeeded, test_passed, consecutive_build_failures,
                   consecutive_test_failures, last_test_error, built_since_write,
                   tested_since_write, disk>>
    /\ UNCHANGED <<orch_vars, lib_vars>>

SynthNext ==
    \/ SynthLlmRespond
    \/ SynthMaxStepsReached
    \/ SynthWriteFile
    \/ SynthBuild
    \/ SynthTest
    \/ SynthComplete
    \/ SynthOtherTool

SynthSpec == SynthInit /\ [][SynthNext]_vars

(***************************************************************************)
(* The router: capabilities_summary_for_task on a loaded catalog.          *)
(***************************************************************************)
\* the records a meta.json can be loaded as
LoadableRecords ==
    {NoCap} \cup [status : {Active, Legacy, Deprecated}, replaced_by : {NoId}]

\* CapabilityStore::load: any catalog with at least one capability, indexed
RouterInit ==
    /\ store \in [Ids -> LoadableRecords]
    /\ IdsOf(store) # {}
    /\ index = IdsOf(store)
    /\ disk = [id \in Ids |->
                 IF store[id] = NoCap THEN NoMeta
                 ELSE [status |-> store[id].status, replaced_by |-> NoId, reason |-> 0]]
    /\ agent_kind = "Agent"
    /\ failure_counts = [id \in Ids |-> 0]
    /\ pc = "idle"
    /\ step = 0
    /\ pending = <<>>
    /\ response = <<>>
    /\ exec_log = <<>>
    /\ results = <<>>
    /\ outcome = "none"
    /\ llm_requests = 0
    /\ only_tool_turns = TRUE
    /\ last = NoLast
    /\ failed_synth = {}
    /\ made = {}
    /\ prev_failed = {}
    /\ events = 0
    /\ SynthOff
    /\ summary = NoSummary
    /\ HostOff
    /\ CatalogOff
    /\ LoadOff
    /\ PlanOff
    /\ WriteOff
    /\ ChatOff
    /\ GenOff
    /\ ExtOff

\* one call of capabilities_summary_for_task(task, embedder, k)
Route ==
    /\ \/ \E q \in TaskEmbeddings, k \in 0..TopK :
              \E nearest \in NearestForTask(index, q, k) :
                  IF ~nearest.ok
                  THEN \* self.index.nearest_for_task(task, embedder, k)? is Err
                       summary' = Summary(TRUE, FALSE, <<>>, q, k)
                  ELSE summary' = Summary(TRUE, TRUE, FilterActive(store, nearest.ids), q, k)
       \/ \* nearest_for_task: "failed to embed task description"
          \E k \in 0..TopK : summary' = Summary(TRUE, FALSE, <<>>, <<>>, k)
    /\ UNCHANGED <<orch_vars, disk, synth_vars, host_vars, cat_vars, load_vars, plan_vars,
                   write_vars, chat_vars, gen_vars, ext_vars>>

RouterNext == Route

RouterSpec == RouterInit /\ [][RouterNext]_vars

(***************************************************************************)
(* One invocation of CapabilityRunner::run_capability: the guest makes at  *)
(* most one host function call, then ends.                                 *)
(***************************************************************************)
\* the orchestrator between tasks, on the initial catalog
OrchAtRest ==
    /\ agent_kind = "Agent"
    /\ disk = [id \in Ids |->
                 IF id \in InitialIds
                 THEN [status |-> Unset, replaced_by |-> NoId, reason |-> 0]
                 ELSE NoMeta]
    /\ store = LoadCapabilities(disk)
    /\ index = IdsOf(store)
    /\ failure_counts = [id \in Ids |-> 0]
    /\ pc = "idle"
    /\ step = 0
    /\ pending = <<>>
    /\ response = <<>>
    /\ exec_log = <<>>
    /\ results = <<>>
    /\ outcome = "none"
    /\ llm_requests = 0
    /\ only_tool_turns = TRUE
    /\ last = NoLast
    /\ failed_synth = {}
    /\ made = {}
    /\ prev_failed = {}
    /\ events = 0

\* the instance is created; the guest is about to make its call, if any
HostInit ==
    /\ OrchAtRest
    /\ SynthOff
    /\ summary = NoSummary
    /\ CatalogOff
    /\ LoadOff
    /\ PlanOff
    /\ WriteOff
    /\ ChatOff
    /\ GenOff
    /\ ExtOff
    /\ has_memory \in BOOLEAN
    /\ guest_mem \in InitMemories
    /\ host_call \in HostCalls \cup {NoCall}
    /\ host_ret = NoRet
    /\ host_file = NoFile
    /\ run_result = NoRun

\* the state a host function leaves
HostReturns(e, env) ==
    /\ guest_mem' = e.mem
    /\ host_ret' = HostRet(TRUE, e.code, e.panicked, env)
    /\ host_file' = IF e.file.written THEN e.file ELSE host_file
    /\ UNCHANGED <<has_memory, host_call, run_result>>
    /\ UNCHANGED <<orch_vars, disk, synth_vars, router_vars, cat_vars, load_vars, plan_vars,
                   write_vars, chat_vars, gen_vars, ext_vars>>

HostHttpGet ==
    /\ host_call.fn = "http_get"
    /\ ~host_ret.done
    /\ \E env \in HttpEnvs, overflow_checks \in BOOLEAN :
         HostReturns(HttpGet(has_memory, guest_mem, host_call, env, overflow_checks), env)

HostFileRead ==
    /\ host_call.fn = "file_read"
    /\ ~host_ret.done
    /\ \E env \in FileReadEnvs, overflow_checks \in BOOLEAN :
         HostReturns(FileRead(has_memory, guest_mem, host_call, env, overflow_checks), env)

HostFileWrite ==
    /\ host_call.fn = "file_write"
    /\ ~host_ret.done
    /\ \E env \in FileWriteEnvs, overflow_checks \in BOOLEAN :
         HostReturns(FileWrite(has_memory, guest_mem, host_call, env, overflow_checks), env)

\* "wasm_missing" and "not_started": run_capability returned before _start ran
GuestEnds == {"return", "exit_zero", "exit_nonzero", "trap"}

\* if exit.0 == 0
ZeroExit_Any(end) == end \in {"exit_zero", "exit_nonzero"}

\* if exit.0 == 0
ZeroExit(end) == end = "exit_zero"

\* run_capability's result for a guest that ended with `end` and whose stdout
\* is (utf8) or is not valid UTF-8
RunCapability(end, utf8) ==
    IF end = "wasm_missing" THEN RunResult(end, utf8, FALSE, TRUE)
    ELSE IF end = "not_started" THEN RunResult(end, utf8, FALSE, FALSE)
    ELSE IF ~utf8 THEN RunResult(end, utf8, FALSE, FALSE)
    ELSE IF end = "return" THEN RunResult(end, utf8, TRUE, FALSE)
    ELSE IF ZeroExit(end) THEN RunResult(end, utf8, TRUE, FALSE)
    ELSE RunResult(end, utf8, FALSE, TRUE)

\* run_capability returns: before _start, or after the guest ended; the store
\* and with it the instance's memory are dropped.  A panic of a host function
\* unwinds through run_capability, which then returns nothing.
RunCapabilityReturns ==
    /\ run_result = NoRun
    /\ \/ /\ host_call = NoCall
          /\ \E end \in GuestEnds \cup {"wasm_missing", "not_started"} :
                 run_result' = RunCapability(end, TRUE)
       \/ /\ host_call = NoCall \/ (host_ret.done /\ ~host_ret.panicked)
          /\ \E end \in GuestEnds, utf8 \in BOOLEAN :
                 run_result' = RunCapability(end, utf8)
    /\ has_memory' = FALSE
    /\ guest_mem' = NoMemory
    /\ host_call' = NoCall
    /\ host_ret' = NoRet
    /\ UNCHANGED host_file
    /\ UNCHANGED <<orch_vars, disk, synth_vars, router_vars, cat_vars, load_vars, plan_vars,
                   write_vars, chat_vars, gen_vars, ext_vars>>

HostNext ==
    \/ HostHttpGet
    \/ HostFileRead
    \/ HostFileWrite
    \/ RunCapabilityReturns

HostSpec == HostInit /\ [][HostNext]_vars

(***************************************************************************)
(* The catalog under the operations that change it: mark_deprecated, as    *)
(* handle_run_capability calls it at the failure threshold, and a          *)
(* synthesis followed by reload, as handle_mutate_capability runs it.      *)
(***************************************************************************)
\* the orchestrator's variables that no catalog operation reads or writes
task_vars == <<failure_counts, pc, step, pending, response, exec_log, results,
               outcome, llm_requests, only_tool_turns, last, failed_synth, made,
               prev_failed, events>>

CatalogInit ==
    /\ OrchAtRest
    /\ SynthOff
    /\ summary = NoSummary
    /\ HostOff
    /\ CatalogOff
    /\ LoadOff
    /\ PlanOff
    /\ WriteOff
    /\ ChatOff
    /\ GenOff
    /\ ExtOff

\* mark_deprecated returns Ok: the id is in the store, meta.json exists and
\* was read and rewritten
MarkDeprecatedOk(caps, d, id, fs_ok) == caps[id] # NoCap /\ d[id] # NoMeta /\ fs_ok

\* the reasons handle_run_capability passes: "Failed <count> times. ..." with
\* the failure count of the capability, which is at least the threshold
DeprecationReasons == {FailureThreshold, FailureThreshold + 1}

\* CapabilityStore::mark_deprecated(id, reason)
MarkDeprecated ==
    /\ \E id \in Ids, reason \in DeprecationReasons, fs_ok \in BOOLEAN :
         /\ store' = MarkDeprecatedStore(store, id)
         /\ disk' = MarkDeprecatedDisk(store, disk, id, reason, fs_ok)
         /\ catalog_op' = CatalogOp("mark_deprecated", id,
                                    MarkDeprecatedOk(store, disk, id, fs_ok))
    /\ UNCHANGED <<agent_kind, index, task_vars>>
    /\ UNCHANGED <<synth_vars, router_vars, host_vars, load_vars, plan_vars,
                   write_vars, chat_vars, gen_vars, ext_vars>>

\* mutate_capability: copy_capability, the planner's run, and reload
Mutate ==
    /\ \E parent \in Ids, new_id \in NewIds, synth \in SynthOutcomes(agent_kind),
          fs_ok \in BOOLEAN, reload_ok \in BOOLEAN :
         LET created == [disk EXCEPT ![new_id] = ScaffoldMeta]
             final == DiskAfterSynthesis(agent_kind, created, parent, new_id, synth, fs_ok)
         IN
         /\ synth # "complete_legacy" => fs_ok
         /\ disk[parent] # NoMeta
         /\ disk[new_id] = NoMeta
         /\ IF synth = "fail"
            THEN /\ reload_ok
                 /\ disk' = created
                 /\ catalog_op' = CatalogOp("mutate", new_id, FALSE)
                 /\ UNCHANGED <<store, index>>
            ELSE IF ~reload_ok
            THEN /\ disk' = final
                 /\ catalog_op' = CatalogOp("mutate", new_id, FALSE)
                 /\ UNCHANGED <<store, index>>
            ELSE /\ disk' = final
                 /\ store' = ReloadedStore(final)
                 /\ index' = IdsOf(ReloadedStore(final))
                 /\ catalog_op' = CatalogOp("mutate", new_id, TRUE)
    /\ UNCHANGED <<agent_kind, task_vars>>
    /\ UNCHANGED <<synth_vars, router_vars, host_vars, load_vars, plan_vars,
                   write_vars, chat_vars, gen_vars, ext_vars>>

CatalogNext ==
    \/ MarkDeprecated
    \/ Mutate

CatalogSpec == CatalogInit /\ [][CatalogNext]_vars

(***************************************************************************)
(* CapabilityStore::load on a capabilities root: load_capabilities, the    *)
(* empty check, CapabilityIndex::build.                                    *)
(***************************************************************************)
\* the ids meta.json files declare
LoadIds == {"a", "n1"}

DirMetas ==
    {NoDirMeta, Malformed}
    \cup [id : LoadIds, emb : {NoEmb} \cup EmbDims, kind : {"meta"}]

\* embedder.embed returned Err
EmbedError == -1

LoadInit ==
    /\ OrchAtRest
    /\ SynthOff
    /\ summary = NoSummary
    /\ HostOff
    /\ CatalogOff
    /\ has_crates \in BOOLEAN
    /\ root \in [Dirs -> DirMetas]
    /\ ~has_crates => root = [d \in Dirs |-> NoDirMeta]
    /\ loaded = NoLoad
    /\ PlanOff
    /\ WriteOff
    /\ ChatOff
    /\ GenOff
    /\ ExtOff

\* CapabilityRegistry::load_capabilities, with read_dir yielding the
\* directories in `order`: Ok with no record when crates/ is not found, Err on
\* a meta.json that does not parse, otherwise one record per directory that
\* has a meta.json
LoadRecords(hc, rt, order) ==
    IF ~hc
    THEN [ok |-> TRUE, caps |-> <<>>]
    ELSE IF \E d \in Dirs : rt[d].kind = "malformed"
    THEN [ok |-> FALSE, caps |-> <<>>]
    ELSE LET metas == [i \in 1..Len(order) |-> rt[order[i]]]
             found == SelectSeq(metas, LAMBDA m : m.kind = "meta")
         IN  [ok |-> TRUE,
              caps |-> [i \in 1..Len(found) |-> [id |-> found[i].id, emb |-> found[i].emb]]]

\* if d != emb.len(): any length is accepted
DimMatches_Any(d, len) == TRUE

\* if d != emb.len() { bail }
DimMatches(d, len) == d = len

\* CapabilityIndex::build from capability i on; dim = NoEmb is None, and
\* embed[i] is what the embedder returns for capability i
RECURSIVE BuildFrom(_, _, _, _)
BuildFrom(caps, embed, i, dim) ==
    IF i > Len(caps)
    THEN [ok |-> TRUE, caps |-> caps, dim |-> dim]
    ELSE LET emb == IF caps[i].emb = NoEmb THEN embed[i] ELSE caps[i].emb
         IN  IF emb = EmbedError THEN [ok |-> FALSE, caps |-> caps, dim |-> dim]
             ELSE IF dim # NoEmb /\ ~DimMatches(dim, emb)
                  THEN [ok |-> FALSE, caps |-> caps, dim |-> dim]
             ELSE BuildFrom([caps EXCEPT ![i].emb = emb], embed, i + 1,
                            IF dim # NoEmb THEN dim ELSE emb)

\* CapabilityIndex::build
Build(caps, embed) == BuildFrom(caps, embed, 1, NoEmb)

\* CapabilityStore::load
Load ==
    /\ ~loaded.done
    /\ \E order \in Orderings(Dirs),
          embed \in [1..Cardinality(Dirs) -> {EmbedError} \cup EmbDims] :
         LET recs == LoadRecords(has_crates, root, order)
             built == Build(recs.caps, embed)
         IN  IF ~recs.ok \/ Len(recs.caps) = 0 \/ ~built.ok
             THEN loaded' = Loaded(TRUE, FALSE, <<>>, 0, {})
             ELSE loaded' = Loaded(TRUE, TRUE, built.caps, built.dim,
                                   {built.caps[i].id : i \in 1..Len(built.caps)})
    /\ UNCHANGED <<has_crates, root>>
    /\ UNCHANGED <<orch_vars, disk, synth_vars, router_vars, host_vars, cat_vars, plan_vars,
                   write_vars, chat_vars, gen_vars, ext_vars>>

LoadNext == Load

LoadSpec == LoadInit /\ [][LoadNext]_vars

(***************************************************************************)
(* One synthesis by the planner pipeline (planner MutationAgent with its   *)
(* coder and tester sub-agents) or by CodingAgent::create_capability,      *)
(* from the scaffolded directory to the result.                            *)
(***************************************************************************)
PlanKinds == {"planner", "coding_agent"}

PlanNewId == "n1"
PlanParent == "a"

\* for step in 0..max_steps
PlanLoopRuns(kind, s) ==
    IF kind = "planner" THEN s < PlannerMaxSteps ELSE s < CodingMaxSteps

\* copy_capability / scaffold_capability has created the directory of the
\* new capability; the loop is about to send its first request
PlanInit ==
    /\ agent_kind = "Agent"
    /\ disk = [id \in Ids |->
                 IF id = PlanParent THEN [status |-> Unset, replaced_by |-> NoId, reason |-> 0]
                 ELSE IF id = PlanNewId THEN ScaffoldMeta
                 ELSE NoMeta]
    /\ store = LoadCapabilities([disk EXCEPT ![PlanNewId] = NoMeta])
    /\ index = IdsOf(store)
    /\ failure_counts = [id \in Ids |-> 0]
    /\ pc = "tools"
    /\ step = 0
    /\ pending = <<1>>
    /\ response = <<1>>
    /\ exec_log = <<>>
    /\ results = <<>>
    /\ outcome = "none"
    /\ llm_requests = 1
    /\ only_tool_turns = TRUE
    /\ last = NoLast
    /\ failed_synth = {}
    /\ made = {}
    /\ prev_failed = {}
    /\ events = 0
    /\ SynthOff
    /\ summary = NoSummary
    /\ HostOff
    /\ CatalogOff
    /\ LoadOff
    /\ plan_kind \in PlanKinds
    /\ plan_pc = "llm"
    /\ plan_step = 0
    /\ plan_calls = 0
    /\ tests_passed = FALSE
    /\ wasm_fresh = FALSE
    /\ agent_since_test = FALSE
    /\ plan_reply = NoReply
    /\ WriteOff
    /\ ChatOff
    /\ GenOff
    /\ ExtOff

\* a tool result was pushed; after the last call of the response the loop
\* goes on to its next step
PlanHandled ==
    /\ plan_calls' = plan_calls - 1
    /\ IF plan_calls = 1
       THEN plan_pc' = "llm" /\ plan_step' = plan_step + 1
       ELSE plan_pc' = "tools" /\ plan_step' = plan_step

\* `?` on an Err: the pipeline returns the error
PlanFailed ==
    /\ plan_pc' = "failed"
    /\ plan_calls' = 0
    /\ plan_step' = plan_step

\* return Ok(MutationResult)
PlanDone ==
    /\ plan_pc' = "done"
    /\ plan_calls' = 0
    /\ plan_step' = plan_step

\* the text response is not the end: the loop goes on to its next step
PlanContinue ==
    /\ plan_pc' = "llm"
    /\ plan_calls' = 0
    /\ plan_step' = plan_step + 1

\* one iteration of run_planner / create_capability up to the dispatch on
\* the response, and the whole iteration for a text response
PlanLlmRespond ==
    /\ plan_pc = "llm"
    /\ PlanLoopRuns(plan_kind, plan_step)
    /\ \E kind \in {"transport_error", "tool_calls", "done_text", "text", "empty"},
          n \in 1..MaxCalls, test_ran \in BOOLEAN, passed \in BOOLEAN,
          build_ran \in BOOLEAN, build_ok \in BOOLEAN, meta_ok \in BOOLEAN :
         CASE kind = "transport_error" ->
                /\ PlanFailed
                /\ plan_reply' = Reply(kind, FALSE, FALSE, FALSE)
                /\ UNCHANGED <<wasm_fresh, disk>>
           [] kind = "tool_calls" ->
                /\ plan_calls' = n
                /\ plan_pc' = "tools"
                /\ plan_step' = plan_step
                /\ plan_reply' = Reply(kind, FALSE, FALSE, FALSE)
                /\ UNCHANGED <<wasm_fresh, disk>>
           [] kind = "text" ->
                \* "Continue."
                /\ PlanContinue
                /\ plan_reply' = Reply(kind, FALSE, FALSE, TRUE)
                /\ UNCHANGED <<wasm_fresh, disk>>
           [] kind = "empty" ->
                \* neither function calls nor a message item: CodingAgent
                \* pushes nothing (response.text() is None); the planner
                \* pushes the empty assistant message and "Continue."
                /\ PlanContinue
                /\ plan_reply' = Reply(kind, FALSE, FALSE, plan_kind = "planner")
                /\ UNCHANGED <<wasm_fresh, disk>>
           [] kind = "done_text" ->
                IF ~test_ran
                THEN \* common::handle_test(...)? / run_cargo_test(...)? is Err
                     /\ PlanFailed
                     /\ plan_reply' = Reply(kind, FALSE, FALSE, FALSE)
                     /\ UNCHANGED <<wasm_fresh, disk>>
                ELSE IF ~passed
                THEN /\ PlanContinue
                     /\ plan_reply' = Reply(kind, FALSE, FALSE, TRUE)
                     /\ UNCHANGED <<wasm_fresh, disk>>
                ELSE IF plan_kind = "planner"
                THEN \* "Auto-completing: model indicated done and tests pass"
                     /\ PlanDone
                     /\ plan_reply' = Reply(kind, TRUE, FALSE, FALSE)
                     /\ UNCHANGED <<wasm_fresh, disk>>
                ELSE IF ~build_ran
                THEN \* run_wasm_build(...)? is Err
                     /\ PlanFailed
                     /\ plan_reply' = Reply(kind, TRUE, FALSE, FALSE)
                     /\ UNCHANGED <<wasm_fresh, disk>>
                ELSE IF ~build_ok
                THEN \* "WASM build failed. Fix it."
                     /\ PlanContinue
                     /\ plan_reply' = Reply(kind, TRUE, FALSE, TRUE)
                     /\ UNCHANGED <<wasm_fresh, disk>>
                ELSE IF ~meta_ok
                THEN \* self.update_meta(...)? is Err
                     /\ PlanFailed
                     /\ plan_reply' = Reply(kind, TRUE, TRUE, FALSE)
                     /\ wasm_fresh' = TRUE
                     /\ UNCHANGED disk
                ELSE /\ PlanDone
                     /\ plan_reply' = Reply(kind, TRUE, TRUE, FALSE)
                     /\ wasm_fresh' = TRUE
                     /\ disk' = UpdateMeta(disk, PlanNewId)
    /\ UNCHANGED <<agent_since_test, plan_kind, tests_passed>>
    /\ UNCHANGED <<orch_vars, synth_vars, router_vars, host_vars, cat_vars, load_vars,
                   write_vars, chat_vars, gen_vars, ext_vars>>

\* bail!("Planner reached max steps without completing") /
\* bail!("Agent reached max steps without completing")
PlanMaxStepsReached ==
    /\ plan_pc = "llm"
    /\ ~PlanLoopRuns(plan_kind, plan_step)
    /\ PlanFailed
    /\ UNCHANGED <<agent_since_test, plan_kind, tests_passed, wasm_fresh, disk>>
    /\ UNCHANGED plan_reply
    /\ UNCHANGED <<orch_vars, synth_vars, router_vars, host_vars, cat_vars, load_vars,
                   write_vars, chat_vars, gen_vars, ext_vars>>

\* PlannerToolHandler::handle_start_coder: run_coder_agent edits the source
\* and may build it; its tools are not gated and its result is Ok on DONE
PlanStartCoder ==
    /\ plan_pc = "tools"
    /\ plan_kind = "planner"
    /\ \E ok \in BOOLEAN, source \in {"untouched", "edited", "built"} :
         /\ wasm_fresh' = CASE source = "untouched" -> wasm_fresh
                            [] source = "edited" -> FALSE
                            [] source = "built" -> TRUE
         /\ IF ok THEN PlanHandled ELSE PlanFailed
         /\ plan_reply' = IF ok THEN Reply("coder_done", FALSE, FALSE, FALSE)
                          ELSE Reply("coder_failed", FALSE, FALSE, FALSE)
    /\ agent_since_test' = TRUE
    /\ UNCHANGED <<plan_kind, tests_passed, disk>>
    /\ UNCHANGED <<orch_vars, synth_vars, router_vars, host_vars, cat_vars, load_vars,
                   write_vars, chat_vars, gen_vars, ext_vars>>

\* PlannerToolHandler::handle_start_tester: run_tester_agent backs src up
\* and restores it; a failing restore is only logged
PlanStartTester ==
    /\ plan_pc = "tools"
    /\ plan_kind = "planner"
    /\ \E ok \in BOOLEAN, restored \in BOOLEAN :
         /\ wasm_fresh' = IF restored THEN wasm_fresh ELSE FALSE
         /\ IF ok THEN PlanHandled ELSE PlanFailed
    /\ agent_since_test' = TRUE
    /\ UNCHANGED <<plan_kind, tests_passed, disk>>
    /\ plan_reply' = Reply("tool", FALSE, FALSE, FALSE)
    /\ UNCHANGED <<orch_vars, synth_vars, router_vars, host_vars, cat_vars, load_vars,
                   write_vars, chat_vars, gen_vars, ext_vars>>

\* PlannerToolHandler::handle_test; CodingAgent::handle_tool "test"
PlanTest ==
    /\ plan_pc = "tools"
    /\ \E ran \in BOOLEAN, success \in BOOLEAN :
         IF ~ran
         THEN \* cargo could not be started
              /\ success
              /\ PlanFailed
              /\ UNCHANGED <<tests_passed, agent_since_test>>
         ELSE /\ PlanHandled
              /\ agent_since_test' = FALSE
              /\ tests_passed' = IF plan_kind = "planner" THEN success ELSE tests_passed
    /\ UNCHANGED <<plan_kind, wasm_fresh, disk>>
    /\ plan_reply' = Reply("tool", FALSE, FALSE, FALSE)
    /\ UNCHANGED <<orch_vars, synth_vars, router_vars, host_vars, cat_vars, load_vars,
                   write_vars, chat_vars, gen_vars, ext_vars>>

\* if !self.tests_passed { return "ERROR: Tests have not passed." }
PlanCompleteAdmissible(t) == t

\* PlannerToolHandler::handle_complete
PlanComplete ==
    /\ plan_pc = "tools"
    /\ plan_kind = "planner"
    /\ \E parsed \in BOOLEAN, mark_parent_legacy \in BOOLEAN, meta_ok \in BOOLEAN,
          fs_ok \in BOOLEAN :
         /\ mark_parent_legacy \/ fs_ok
         /\ IF ~parsed
            THEN \* serde_json::from_str(...)? is Err
                 /\ mark_parent_legacy /\ meta_ok /\ fs_ok
                 /\ PlanFailed
                 /\ UNCHANGED disk
            ELSE IF ~PlanCompleteAdmissible(tests_passed)
            THEN /\ mark_parent_legacy /\ meta_ok /\ fs_ok
                 /\ PlanHandled
                 /\ UNCHANGED disk
            ELSE IF ~meta_ok
            THEN \* update_meta_json(...)? is Err
                 /\ mark_parent_legacy /\ fs_ok
                 /\ PlanFailed
                 /\ UNCHANGED disk
            ELSE /\ disk' = IF mark_parent_legacy
                            THEN MarkAsLegacy(UpdateMetaJson(disk, PlanNewId),
                                              PlanParent, PlanNewId, fs_ok)
                            ELSE UpdateMetaJson(disk, PlanNewId)
                 /\ PlanDone
    /\ UNCHANGED <<agent_since_test, plan_kind, tests_passed, wasm_fresh>>
    /\ plan_reply' = Reply("tool", FALSE, FALSE, FALSE)
    /\ UNCHANGED <<orch_vars, synth_vars, router_vars, host_vars, cat_vars, load_vars,
                   write_vars, chat_vars, gen_vars, ext_vars>>

\* CodingAgent::handle_tool "write_file"
PlanWriteFile ==
    /\ plan_pc = "tools"
    /\ plan_kind = "coding_agent"
    /\ \E parsed \in BOOLEAN, written \in BOOLEAN :
         IF ~parsed
         THEN \* serde_json::from_str(arguments)? is Err
              /\ written
              /\ PlanFailed
              /\ UNCHANGED wasm_fresh
         ELSE /\ wasm_fresh' = FALSE
              /\ IF written THEN PlanHandled ELSE PlanFailed
    /\ UNCHANGED <<agent_since_test, plan_kind, tests_passed, disk>>
    /\ plan_reply' = Reply("tool", FALSE, FALSE, FALSE)
    /\ UNCHANGED <<orch_vars, synth_vars, router_vars, host_vars, cat_vars, load_vars,
                   write_vars, chat_vars, gen_vars, ext_vars>>

\* CodingAgent::handle_tool "build"
PlanBuild ==
    /\ plan_pc = "tools"
    /\ plan_kind = "coding_agent"
    /\ \E ran \in BOOLEAN, success \in BOOLEAN :
         IF ~ran
         THEN \* .context("failed to run cargo build")?
              /\ success
              /\ PlanFailed
              /\ UNCHANGED wasm_fresh
         ELSE /\ PlanHandled
              /\ wasm_fresh' = IF success THEN TRUE ELSE wasm_fresh
    /\ UNCHANGED <<agent_since_test, plan_kind, tests_passed, disk>>
    /\ plan_reply' = Reply("tool", FALSE, FALSE, FALSE)
    /\ UNCHANGED <<orch_vars, synth_vars, router_vars, host_vars, cat_vars, load_vars,
                   write_vars, chat_vars, gen_vars, ext_vars>>

\* write_plan, read_plan and unknown tool names (planner); list_files,
\* read_file and unknown tool names (CodingAgent): the source is not touched;
\* arguments that do not parse make write_plan, list_files and read_file
\* return Err
PlanOtherTool ==
    /\ plan_pc = "tools"
    /\ \E ok \in BOOLEAN : IF ok THEN PlanHandled ELSE PlanFailed
    /\ UNCHANGED <<agent_since_test, plan_kind, tests_passed, wasm_fresh, disk>>
    /\ plan_reply' = Reply("tool", FALSE, FALSE, FALSE)
    /\ UNCHANGED <<orch_vars, synth_vars, router_vars, host_vars, cat_vars, load_vars,
                   write_vars, chat_vars, gen_vars, ext_vars>>

PlanNext ==
    \/ PlanLlmRespond
    \/ PlanMaxStepsReached
    \/ PlanStartCoder
    \/ PlanStartTester
    \/ PlanTest
    \/ PlanComplete
    \/ PlanWriteFile
    \/ PlanBuild
    \/ PlanOtherTool

PlanSpec == PlanInit /\ [][PlanNext]_vars

(***************************************************************************)
(* write_file of the coder and tester sub-agents.  A path is the sequence  *)
(* of its components; an absolute path starts with the component "/".     *)
(***************************************************************************)
WriteNewId == "n1"

\* cap_path: <capabilities_root>/crates/<new_id>
CapPath == <<"/", "caps", "crates", WriteNewId>>

\* the `path` arguments a model sends
AgentPaths ==
    {<<"tests", "t.rs">>, <<"src", "lib.rs">>, <<"Cargo.toml">>, <<"/", "etc", "x">>,
     <<WriteNewId, "tests", "t.rs">>, <<"src", "..", "meta.json">>,
     <<"src", "..", "..", "a", "meta.json">>, <<"src", "new.rs">>}

\* the regular files directly in src/ that the model follows, and who wrote
\* their content ("absent": no such file)
SrcNames == {"lib.rs", "new.rs"}

SrcAtStart == [n \in SrcNames |-> IF n = "lib.rs" THEN "scaffold" ELSE "absent"]

\* fs::write(target, content) seen from src/
SrcAfterWrite(src, target, who) ==
    [n \in SrcNames |-> IF target = CapPath \o <<"src", n>> THEN who ELSE src[n]]

\* restore_src stopped by an I/O error: each file is as the tester left it,
\* removed, or written back
PartialRestores(src, backup) ==
    {m \in [SrcNames -> {"absent", "scaffold", "coder", "tester"}] :
        \A n \in SrcNames : m[n] \in {src[n], "absent", backup[n]}}

WritePhases == {"coder", "tester"}

\* Path::is_absolute
IsAbsolute(p) == Len(p) > 0 /\ p[1] = "/"

\* common::normalize_path
NormalizePath(p, cap, new_id) ==
    IF IsAbsolute(p) THEN p
    ELSE IF Len(p) > 1 /\ p[1] \in {"src", "tests"} THEN cap \o p
    ELSE IF \E i \in 1..(Len(p) - 1) : p[i] = new_id
    THEN LET i == CHOOSE k \in 1..(Len(p) - 1) :
                      p[k] = new_id /\ \A j \in 1..(k - 1) : p[j] # new_id
         IN  cap \o SubSeq(p, i + 1, Len(p))
    ELSE cap \o p

\* Path::starts_with: a prefix of whole components; ".." is a component like
\* any other
StartsWith(p, scope) == Len(scope) <= Len(p) /\ SubSeq(p, 1, Len(scope)) = scope

\* the write scopes of the two handlers: both pass tests/ and src/
WriteScopes(phase) == {CapPath \o <<"tests">>, CapPath \o <<"src">>}

\* handle_write_file_multi_scope's check
WriteAllowed(path, scopes) ==
    scopes = {} \/ \E scope \in scopes : StartsWith(path, scope)

RECURSIVE Resolve(_, _)
\* the file the operating system opens for a path: ".." leaves the directory
\* reached so far
Resolve(done, rest) ==
    IF rest = <<>> THEN done
    ELSE IF Head(rest) = ".."
    THEN Resolve(IF Len(done) > 1 THEN SubSeq(done, 1, Len(done) - 1) ELSE done, Tail(rest))
    ELSE Resolve(Append(done, Head(rest)), Tail(rest))

WriteInit ==
    /\ OrchAtRest
    /\ SynthOff
    /\ summary = NoSummary
    /\ HostOff
    /\ CatalogOff
    /\ LoadOff
    /\ PlanOff
    /\ fsw = [NoFsw EXCEPT !.src = SrcAtStart, !.backup = SrcAtStart]
    /\ ChatOff
    /\ GenOff
    /\ ExtOff

\* CoderToolHandler::handle_write_file / TesterToolHandler::handle_write_file
WriteFile ==
    /\ \E phase \in WritePhases, p \in AgentPaths, parsed \in BOOLEAN, fs_ok \in BOOLEAN :
         \* the tester's session ends with RestoreSrc
         /\ fsw.phase = "tester" => phase = "tester"
         /\ LET path == NormalizePath(p, CapPath, WriteNewId)
                 accepted == parsed /\ WriteAllowed(path, WriteScopes(phase)) /\ fs_ok
                 target == Resolve(<<>>, path)
                 \* backup_src, when this is the first call of a tester session
                 backup == IF phase = "tester" /\ fsw.phase # "tester" THEN fsw.src
                           ELSE fsw.backup
             IN  fsw' = [phase |-> phase, path |-> p, accepted |-> accepted,
                         target |-> target,
                         written |-> IF accepted THEN fsw.written \cup {target}
                                     ELSE fsw.written,
                         src |-> IF accepted THEN SrcAfterWrite(fsw.src, target, phase)
                                 ELSE fsw.src,
                         backup |-> backup]
    /\ UNCHANGED <<orch_vars, disk, synth_vars, router_vars, host_vars, cat_vars, load_vars,
                   plan_vars, chat_vars, gen_vars, ext_vars>>

\* run_tester_agent returns: restore_src removes the files directly in src/
\* and writes the backed-up ones again; an error of the restore is only logged
RestoreSrc ==
    /\ fsw.phase = "tester"
    /\ \E restored \in BOOLEAN, left \in PartialRestores(fsw.src, fsw.backup) :
         /\ restored => left = fsw.backup
         /\ fsw' = [fsw EXCEPT !.phase = "none",
                               !.written = IF restored
                                           THEN {f \in fsw.written :
                                                   ~(StartsWith(f, CapPath \o <<"src">>)
                                                     /\ Len(f) = Len(CapPath) + 2)}
                                           ELSE fsw.written,
                               !.src = left]
    /\ UNCHANGED <<orch_vars, disk, synth_vars, router_vars, host_vars, cat_vars, load_vars,
                   plan_vars, chat_vars, gen_vars, ext_vars>>

WriteNext ==
    \/ WriteFile
    \/ RestoreSrc

WriteSpec == WriteInit /\ [][WriteNext]_vars

(***************************************************************************)
(* One FoundryClient::chat call, in either API mode.                       *)
(***************************************************************************)
ApiModes == {"responses", "chat_completions"}

\* what one POST can give: an HTTP status with a body that parses or does
\* not, or a network error (status 0)
SendOutcomes ==
    [kind : {"http"}, status : {200, 400, 429, 500, 503}, body_ok : {TRUE}]
    \cup {[kind |-> "http", status |-> 200, body_ok |-> FALSE],
          [kind |-> "network", status |-> 0, body_ok |-> TRUE]}

\* StatusCode::is_success
IsSuccess(status) == status >= 200 /\ status <= 299

\* StatusCode::is_server_error
IsServerError(status) == status >= 500 /\ status <= 599

\* the Responses arm retries on a network error, on 429 and on a 5xx status
Retried(o) ==
    \/ o.kind = "network"
    \/ o.kind = "http" /\ ~IsSuccess(o.status) /\ (o.status = 429 \/ IsServerError(o.status))

ChatInit ==
    /\ OrchAtRest
    /\ SynthOff
    /\ summary = NoSummary
    /\ HostOff
    /\ CatalogOff
    /\ LoadOff
    /\ PlanOff
    /\ WriteOff
    /\ chat \in {[mode |-> m, pc |-> "sending", attempt |-> 1, statuses |-> <<>>,
                  waits |-> <<>>, result |-> "none"] : m \in ApiModes}
    /\ GenOff
    /\ ExtOff

\* the call returns
ChatReturns(o, result) ==
    chat' = [chat EXCEPT !.pc = "done", !.statuses = Append(chat.statuses, o),
                         !.result = result]

\* one iteration of the retry loop of the Responses arm
ChatSendResponses ==
    /\ chat.mode = "responses"
    /\ chat.pc = "sending"
    /\ \E o \in SendOutcomes :
         IF Retried(o)
         THEN \* last_error = Some(..); sleep(attempt seconds); continue
              IF chat.attempt < MaxAttempts
              THEN chat' = [chat EXCEPT !.attempt = chat.attempt + 1,
                                        !.statuses = Append(chat.statuses, o),
                                        !.waits = Append(chat.waits, chat.attempt)]
              ELSE \* the loop is over: Err(last_error)
                   chat' = [chat EXCEPT !.pc = "done",
                                        !.statuses = Append(chat.statuses, o),
                                        !.waits = Append(chat.waits, chat.attempt),
                                        !.result = "err"]
         ELSE IF o.kind = "http" /\ ~IsSuccess(o.status)
         THEN \* bail!("Foundry responses request failed: HTTP ...")
              ChatReturns(o, "err")
         ELSE IF ~o.body_ok
         THEN \* r.text()? / serde_json::from_str(&raw_text)? is Err
              ChatReturns(o, "err")
         ELSE ChatReturns(o, "ok")
    /\ UNCHANGED <<orch_vars, disk, synth_vars, router_vars, host_vars, cat_vars, load_vars,
                   plan_vars, write_vars, gen_vars, ext_vars>>

\* the ChatCompletions arm: one POST
ChatSendCompletions ==
    /\ chat.mode = "chat_completions"
    /\ chat.pc = "sending"
    /\ \E o \in SendOutcomes :
         IF o.kind = "network"
         THEN \* .send().context("failed to send Foundry chat request")?
              ChatReturns(o, "err")
         ELSE IF ~IsSuccess(o.status)
         THEN \* bail!("Foundry chat request failed: HTTP ...")
              ChatReturns(o, "err")
         ELSE IF ~o.body_ok
         THEN \* resp.json().context("failed to parse ...")?
              ChatReturns(o, "err")
         ELSE ChatReturns(o, "ok")
    /\ UNCHANGED <<orch_vars, disk, synth_vars, router_vars, host_vars, cat_vars, load_vars,
                   plan_vars, write_vars, gen_vars, ext_vars>>

ChatNext ==
    \/ ChatSendResponses
    \/ ChatSendCompletions

ChatSpec == ChatInit /\ [][ChatNext]_vars

(***************************************************************************)
(* The id of a new capability and the creation of its directory.  A        *)
(* directory name is <<stem, n>>: <<base, 1>> is base, <<base, n>> is      *)
(* base_n, <<"a_v", n>> is a_v<n>, <<"cap_", n>> is cap_<n>.               *)
(***************************************************************************)
GenAgents == {"mutation_agent", "planner", "coding_agent"}

\* the cleaned name the naming request gives
BaseName == "base"

\* the parent capability of the planner's mutations
GenParent == "a"

RECURSIVE FreeVersion(_, _, _)
\* while crates_dir.join(&candidate).exists() { version += 1; ... }
FreeVersion(dirs, base, version) ==
    IF <<base, version>> \notin dirs THEN version
    ELSE FreeVersion(dirs, base, version + 1)

\* MutationAgent::generate_new_id after the naming request
GenerateNewId(dirs, base) == <<base, FreeVersion(dirs, base, 1)>>

\* planner: format!("{}_v{}", parent_id, timestamp % 10000)
PlannerCapabilityId(parent, stamp) == <<parent \o "_v", stamp>>

\* CodingAgent: format!("cap_{}", ts % 100000)
CodingCapabilityId(stamp) == <<"cap_", stamp>>

GenInit ==
    /\ OrchAtRest
    /\ SynthOff
    /\ summary = NoSummary
    /\ HostOff
    /\ CatalogOff
    /\ LoadOff
    /\ PlanOff
    /\ WriteOff
    /\ ChatOff
    /\ gen = [agent |-> "none", dirs |-> {<<GenParent, 1>>}, before |-> {}, id |-> <<>>,
              ok |-> FALSE]
    /\ ExtOff

\* copy_capability / scaffold_capability: Err when the destination exists,
\* otherwise the directory is created
CreateDirectory(agent, id) ==
    gen' = [agent |-> agent, dirs |-> gen.dirs \cup {id}, before |-> gen.dirs, id |-> id,
            ok |-> id \notin gen.dirs]

\* mutation_agent MutationAgent::mutate_capability up to copy_capability
MutationAgentNewId ==
    /\ Cardinality({d \in gen.dirs : d[1] = BaseName}) < MaxVersions
    /\ \E named \in BOOLEAN :
         IF ~named
         THEN \* self.client.chat(request)? is Err
              gen' = [agent |-> "mutation_agent", dirs |-> gen.dirs, before |-> gen.dirs,
                      id |-> <<>>, ok |-> FALSE]
         ELSE CreateDirectory("mutation_agent", GenerateNewId(gen.dirs, BaseName))
    /\ UNCHANGED <<orch_vars, disk, synth_vars, router_vars, host_vars, cat_vars, load_vars,
                   plan_vars, write_vars, chat_vars, ext_vars>>

\* planner MutationAgent::mutate_capability up to copy_capability
PlannerNewId ==
    /\ \E stamp \in 0..MaxStamp :
         CreateDirectory("planner", PlannerCapabilityId(GenParent, stamp))
    /\ UNCHANGED <<orch_vars, disk, synth_vars, router_vars, host_vars, cat_vars, load_vars,
                   plan_vars, write_vars, chat_vars, ext_vars>>

\* CodingAgent::create_capability up to scaffold_capability
CodingNewId ==
    /\ \E stamp \in 0..MaxStamp :
         CreateDirectory("coding_agent", CodingCapabilityId(stamp))
    /\ UNCHANGED <<orch_vars, disk, synth_vars, router_vars, host_vars, cat_vars, load_vars,
                   plan_vars, write_vars, chat_vars, ext_vars>>

GenNext ==
    \/ MutationAgentNewId
    \/ PlannerNewId
    \/ CodingNewId

GenSpec == GenInit /\ [][GenNext]_vars

(***************************************************************************)
(* ScaffoldSpec: creating the directory of a new capability                *)
(* (scaffold_capability, copy_capability) and reading crates/ back         *)
(* (load_capabilities).                                                    *)
(***************************************************************************)
\* the directory names under crates/
ScafIds == {"a", "a_v1", "n1"}

\* the directory has no meta.json
NoMetaFile == [absent |-> TRUE]

\* crates/<id> does not exist
NoDir == [meta |-> NoMetaFile, code |-> "nodir"]

\* format!("../../target/wasm32-wasip1/release/{}.wasm", new_id)
BinaryPath(id) == <<"../../target/wasm32-wasip1/release/", id, ".wasm">>

\* the json! object scaffold_capability writes to meta.json
ScaffoldMetaJson(new_id) ==
    [id |-> new_id, summary |-> "TODO", binary |-> BinaryPath(new_id)]

\* the json! object copy_capability writes to meta.json
CopyMetaJson(new_id) ==
    [id |-> new_id, summary |-> "New capability (pending implementation)",
     binary |-> BinaryPath(new_id)]

\* the meta.json files of the capability the program starts with: "binary",
\* like every key but "id" and "summary", may be missing
ParentMetas ==
    {[id |-> "a", summary |-> "parent"],
     [id |-> "a", summary |-> "parent", binary |-> BinaryPath("a")]}

\* serde_json::from_str::<CapabilityMeta> followed by the copy into a
\* CapabilityRecord: "id" and "summary" are required, "binary" is an Option
\* that defaults to None, "status" defaults to Active
MetaParses(j) == {"id", "summary"} \subseteq DOMAIN j

ParseMeta_NoBinary(j) ==
    [id |-> j.id, summary |-> j.summary, binary |-> <<>>, status |-> Active]

ParseMeta(j) ==
    [id |-> j.id, summary |-> j.summary,
     binary |-> IF "binary" \in DOMAIN j THEN <<j.binary>> ELSE <<>>,
     status |-> Active]

DstExists_Never(crates, new_id) == FALSE

\* dst.exists()
DstExists(crates, new_id) == crates[new_id] # NoDir

\* where an I/O error can stop a creation: nowhere, before meta.json is
\* written, or (copy_capability) after the tree was copied and before
\* meta.json is rewritten
IoOutcomes == {"ok", "before_meta", "after_copy"}

\* the records load_capabilities pushes, reading the directories in `order`;
\* directories without meta.json are skipped
RECURSIVE LoadedRecords(_, _)
LoadedRecords(crates, order) ==
    IF order = <<>> THEN <<>>
    ELSE LET d == Head(order)
             rest == LoadedRecords(crates, Tail(order))
         IN IF crates[d] = NoDir \/ crates[d].meta = NoMetaFile THEN rest
            ELSE <<ParseMeta(crates[d].meta)>> \o rest

\* every meta.json under crates/ parses
AllMetasParse(crates) ==
    \A d \in DOMAIN crates :
        crates[d] = NoDir \/ crates[d].meta = NoMetaFile \/ MetaParses(crates[d].meta)

ScafOrders == {o \in [1..Cardinality(ScafIds) -> ScafIds] :
                  \A i, j \in DOMAIN o : i # j => o[i] # o[j]}

ScafInit ==
    /\ OrchAtRest
    /\ SynthOff
    /\ summary = NoSummary
    /\ HostOff
    /\ CatalogOff
    /\ LoadOff
    /\ PlanOff
    /\ WriteOff
    /\ ChatOff
    /\ GenOff
    /\ ctx = NoCtx
    /\ \E m \in ParentMetas :
         scaf = [pc |-> "root",
                 crates |-> [d \in ScafIds |->
                               IF d = "a" THEN [meta |-> m, code |-> "a"] ELSE NoDir],
                 new_id |-> "", ok |-> FALSE, records |-> <<>>]

\* CodingAgent::scaffold_capability(new_id)
ScaffoldCapability ==
    /\ scaf.pc # "off"
    /\ \E new_id \in ScafIds, io \in IoOutcomes \ {"after_copy"} :
         scaf' = IF DstExists(scaf.crates, new_id)
                 THEN [scaf EXCEPT !.pc = "scaffold", !.new_id = new_id, !.ok = FALSE]
                 ELSE IF io = "before_meta"
                 THEN [scaf EXCEPT !.pc = "scaffold", !.new_id = new_id, !.ok = FALSE,
                                   !.crates[new_id] = [meta |-> NoMetaFile, code |-> "stub"]]
                 ELSE [scaf EXCEPT !.pc = "scaffold", !.new_id = new_id, !.ok = TRUE,
                                   !.crates[new_id] = [meta |-> ScaffoldMetaJson(new_id),
                                                       code |-> "stub"]]
    /\ UNCHANGED <<orch_vars, disk, synth_vars, router_vars, host_vars, cat_vars, load_vars,
                   plan_vars, write_vars, chat_vars, gen_vars, ctx>>

\* CapabilityOps::copy_capability(parent_id, new_id)
CopyCapability ==
    /\ scaf.pc # "off"
    /\ \E parent_id \in ScafIds, new_id \in ScafIds, io \in IoOutcomes :
         scaf' = IF scaf.crates[parent_id] = NoDir \/ DstExists(scaf.crates, new_id)
                 THEN [scaf EXCEPT !.pc = "copy", !.new_id = new_id, !.ok = FALSE]
                 ELSE IF io = "before_meta"
                 THEN [scaf EXCEPT !.pc = "copy", !.new_id = new_id, !.ok = FALSE,
                                   !.crates[new_id] =
                                       [meta |-> NoMetaFile,
                                        code |-> scaf.crates[parent_id].code]]
                 ELSE IF io = "after_copy"
                 THEN [scaf EXCEPT !.pc = "copy", !.new_id = new_id, !.ok = FALSE,
                                   !.crates[new_id] = scaf.crates[parent_id]]
                 ELSE [scaf EXCEPT !.pc = "copy", !.new_id = new_id, !.ok = TRUE,
                                   !.crates[new_id] =
                                       [meta |-> CopyMetaJson(new_id),
                                        code |-> scaf.crates[parent_id].code]]
    /\ UNCHANGED <<orch_vars, disk, synth_vars, router_vars, host_vars, cat_vars, load_vars,
                   plan_vars, write_vars, chat_vars, gen_vars, ctx>>

\* CapabilityRegistry::load_capabilities right after a creation
ScafLoad ==
    /\ scaf.pc \in {"scaffold", "copy"}
    /\ AllMetasParse(scaf.crates)
    /\ \E order \in ScafOrders :
         scaf' = [scaf EXCEPT !.pc = "loaded_" \o scaf.pc,
                              !.records = LoadedRecords(scaf.crates, order)]
    /\ UNCHANGED <<orch_vars, disk, synth_vars, router_vars, host_vars, cat_vars, load_vars,
                   plan_vars, write_vars, chat_vars, gen_vars, ctx>>

ScafNext ==
    \/ ScaffoldCapability
    \/ CopyCapability
    \/ ScafLoad

ScaffoldSpec == ScafInit /\ [][ScafNext]_vars

(***************************************************************************)
(* CtxSpec: the input items of RuntimeAgent::run_task, one action per      *)
(* iteration of its loop.                                                  *)
(***************************************************************************)
\* the call ids a response can carry
CtxCallIds == {1, 2}

\* if input.len() > 8
TruncateAbove == 8
\* input.len().saturating_sub(6)
KeepLast == 6

\* InputItem::user(task), InputItem::function_call(call_id, ..),
\* InputItem::function_output(call_id, ..)
UserItem == [type |-> "message", call_id |-> 0]
FunctionCall(id) == [type |-> "function_call", call_id |-> id]
FunctionOutput(id) == [type |-> "function_call_output", call_id |-> id]

\* the last n items of s (all of s when it has fewer)
LastItems(s, n) == SubSeq(s, Len(s) - Min(n, Len(s)) + 1, Len(s))

\* a truncation that keeps one item less
Truncated_OneLess(input) ==
    IF Len(input) > TruncateAbove
    THEN <<Head(input)>> \o LastItems(Tail(input), KeepLast - 1)
    ELSE input

\* remove(0), drain(0..len - 6), insert(0, first)
Truncated(input) ==
    IF Len(input) > TruncateAbove
    THEN <<Head(input)>> \o LastItems(Tail(input), KeepLast)
    ELSE input

RECURSIVE Exchanges(_)
\* the items pushed for the function calls of one response, in response order
Exchanges(ids) ==
    IF ids = <<>> THEN <<>>
    ELSE <<FunctionCall(Head(ids)), FunctionOutput(Head(ids))>> \o Exchanges(Tail(ids))

\* the function calls of one response
CallSeqs == UNION {[1..n -> CtxCallIds] : n \in 1..MaxCalls}

CtxInit ==
    /\ OrchAtRest
    /\ SynthOff
    /\ summary = NoSummary
    /\ HostOff
    /\ CatalogOff
    /\ LoadOff
    /\ PlanOff
    /\ WriteOff
    /\ ChatOff
    /\ GenOff
    /\ scaf = NoScaf
    /\ ctx = [pc |-> "loop", step |-> 0, input |-> <<UserItem>>, sent |-> <<>>]

\* one iteration: truncate, send the request, handle the response
CtxIterate ==
    /\ ctx.pc = "loop"
    /\ ctx.step < MaxSteps
    /\ \E kind \in {"transport_error", "function_calls", "text", "empty"},
          ids \in CallSeqs, handled \in 0..MaxCalls :
         LET input == Truncated(ctx.input)
         IN  CASE kind = "transport_error" ->
                    \* self.client.respond(...)? is Err
                    /\ handled = 0
                    /\ ctx' = [ctx EXCEPT !.pc = "failed", !.input = input, !.sent = input]
               [] kind = "function_calls" ->
                    /\ handled <= Len(ids)
                    /\ IF handled = Len(ids)
                       THEN ctx' = [pc |-> "loop", step |-> ctx.step + 1,
                                    input |-> input \o Exchanges(ids), sent |-> input]
                       ELSE \* self.handle_tool(...)? is Err at call handled + 1
                            ctx' = [pc |-> "failed", step |-> ctx.step,
                                    input |-> input \o Exchanges(SubSeq(ids, 1, handled))
                                                    \o <<FunctionCall(ids[handled + 1])>>,
                                    sent |-> input]
               [] kind = "text" ->
                    /\ handled = 0
                    /\ ctx' = [ctx EXCEPT !.pc = "done", !.input = input, !.sent = input]
               [] kind = "empty" ->
                    \* neither function calls nor a message: nothing is pushed
                    /\ handled = 0
                    /\ ctx' = [ctx EXCEPT !.step = ctx.step + 1, !.input = input,
                                          !.sent = input]
    /\ UNCHANGED <<orch_vars, disk, synth_vars, router_vars, host_vars, cat_vars, load_vars,
                   plan_vars, write_vars, chat_vars, gen_vars, scaf>>

\* bail!("Reached max steps without answer")
CtxMaxStepsReached ==
    /\ ctx.pc = "loop"
    /\ ctx.step >= MaxSteps
    /\ ctx' = [ctx EXCEPT !.pc = "failed"]
    /\ UNCHANGED <<orch_vars, disk, synth_vars, router_vars, host_vars, cat_vars, load_vars,
                   plan_vars, write_vars, chat_vars, gen_vars, scaf>>

CtxNext ==
    \/ CtxIterate
    \/ CtxMaxStepsReached

CtxSpec == CtxInit /\ [][CtxNext]_vars

Next ==
    \/ StartTask
    \/ LlmRespond
    \/ MaxStepsReached
    \/ HandleRunCapability
    \/ HandleMutateCapability
    \/ HandleUnknownTool

Spec == Init /\ [][Next]_vars

(***************************************************************************)
(* Properties of the orchestrator.                                         *)
(***************************************************************************)
\* the ids of a sequence of ids
Range(sq) == {sq[i] : i \in 1..Len(sq)}

\* the step is a tool handler of Agent handling a run_capability that ran the
\* capability last'.id
AgentRanCapability ==
    /\ pc = "tools"
    /\ agent_kind = "Agent"
    /\ last'.op = "run_capability"
    /\ last'.ret = "ok"

\* C2: a new id whose synthesis ended in failure is never held by the store
\* as an Active record, whatever load or reload happened after the failure.
C2_FailedSynthesisNeverActive ==
    \A x \in failed_synth : store[x] = NoCap \/ ~IsActive(store[x])

\* C4: when run_capability fails on an id whose previous run also failed, the
\* id is deprecated by that failure: its store record is Deprecated, its
\* meta.json says deprecated (or is untouched, when the file could not be
\* rewritten) and no top-k summary lists it; a failure whose previous run did
\* not fail changes neither the record nor the file.
C4_DeprecatedOnSecondFailure ==
    [][(AgentRanCapability /\ last'.kind = "error") =>
          IF last'.id \in prev_failed
          THEN /\ store'[last'.id].status = Deprecated
               /\ disk'[last'.id].status = Deprecated \/ disk'[last'.id] = disk[last'.id]
               /\ \A q \in Queries :
                    \A sq \in CapabilitiesSummaryForTask(store', index', q, TopK) :
                        last'.id \notin Range(sq)
          ELSE /\ store'[last'.id] = store[last'.id]
               /\ disk'[last'.id] = disk[last'.id]]_vars

\* C5: a failed run_capability on X adds exactly one to X's failure count, a
\* successful one sets it to zero, and neither changes the count of another id.
C5_FailureCount ==
    [][AgentRanCapability =>
          /\ last'.kind = "error" =>
                failure_counts'[last'.id] = failure_counts[last'.id] + 1
          /\ last'.kind = "output" => failure_counts'[last'.id] = 0
          /\ \A y \in Ids \ {last'.id} : failure_counts'[y] = failure_counts[y]]_vars

\* a run of "a" has just succeeded while another id keeps a non-zero count
C5_Witness ==
    /\ agent_kind = "Agent"
    /\ last.op = "run_capability"
    /\ last.kind = "output"
    /\ failure_counts[last.id] = 0
    /\ \E y \in Ids \ {last.id} : failure_counts[y] > 0

\* C6: every id capabilities_summary_for_task returns, for any catalog, task
\* and k, has an Active record in the store.
C6_SummaryOnlyActive ==
    summary.called =>
        \A id \in Range(summary.ids) : store[id] # NoCap /\ IsActive(store[id])

\* a summary with at least one id was returned for a catalog that also holds
\* a capability that is not Active
C6_Witness ==
    /\ summary.called
    /\ summary.ok
    /\ Len(summary.ids) > 0
    /\ \E id \in index : ~IsActive(store[id])

\* C7: whenever the task is about to send an LLM request or to handle a tool
\* call, every id a mutate_capability of this task returned is in the store
\* and in its index.
C7_NewIdAddressable ==
    pc \in {"llm", "tools"} => \A x \in made : store[x] # NoCap /\ x \in index

\* a run_capability of the task has just run an id the task created
C7_Witness ==
    /\ last.op = "run_capability"
    /\ last.ret = "ok"
    /\ last.id \in made

\* C8: run_task sends at most max_steps LLM requests, returns a final answer
\* only after a response without tool calls, and after max_steps requests
\* answered with tool calls the loop is over.
C8_MaxStepsBound ==
    /\ llm_requests <= MaxSteps
    /\ outcome = "answer" => ~only_tool_turns
    /\ (pc = "llm" /\ only_tool_turns /\ llm_requests = MaxSteps) => ~LoopRuns(step)

\* run_task ended in the max_steps error after max_steps responses with tool calls
C8_Witness ==
    /\ pc = "idle"
    /\ outcome = "error"
    /\ llm_requests = MaxSteps
    /\ only_tool_turns
    /\ last.ret = "ok"

\* C9: the results appended in a turn are those of the first calls of the
\* response, in response order and with their call ids; the calls not yet
\* executed are the rest of the response; when the next LLM request is sent
\* every call of the response has its result.
C9_ResponseOrder ==
    /\ Len(results) <= Len(response)
    /\ results = SubSeq(response, 1, Len(results))
    /\ exec_log = results
    /\ pc = "tools" =>
          /\ pending # <<>>
          /\ pending = SubSeq(response, Len(results) + 1, Len(response))
    /\ pc = "llm" => results = response

\* a response with several tool calls has been handled completely
C9_Witness ==
    /\ pc = "llm"
    /\ Len(response) >= 2
    /\ results = response

\* C10: a run_capability whose execution failed has returned a tool result
\* (not an error of run_task) that reports the failure tally, and the failure
\* is in the id's failure count.
C10_FailureReportedAndCounted ==
    (last.op = "run_capability" /\ last.kind = "error") =>
        /\ last.ret = "ok"
        /\ last.tally >= 1
        /\ last.tally = failure_counts[last.id]

(***************************************************************************)
(* Properties of the synthesis session.                                    *)
(***************************************************************************)
\* the step promotes the new capability: a meta.json is rewritten or the
\* session returns the new id
Promotes ==
    \/ disk'[SynthNewId] # disk[SynthNewId]
    \/ disk'[SynthParent] # disk[SynthParent]
    \/ synth_pc # "done" /\ synth_pc' = "done"

\* C1: a step promotes the new capability only if it handles a complete call
\* that arrives while code_written, build_succeeded and test_passed are all true.
C1_PromotionGated ==
    [][Promotes =>
          /\ synth_last'.tool = "complete"
          /\ code_written /\ build_succeeded /\ test_passed]_vars

\* the session has returned the new id and its meta.json says active
C1_Witness ==
    /\ synth_pc = "done"
    /\ disk[SynthNewId].status = Active
    /\ code_written /\ build_succeeded /\ test_passed

\* C3 as stated: after every write_file call, whatever its arguments, both
\* gates are false.
C3_EveryWriteResets ==
    synth_last.tool = "write_file" => ~build_succeeded /\ ~test_passed

\* C3: a write_file call whose arguments parse sets build_succeeded and
\* test_passed to false; one whose arguments do not parse changes no flag; and
\* complete is accepted only if a build and a test have succeeded since the
\* last write_file whose arguments parsed.
C3_ParsedWriteResets ==
    [][synth_pc = "tools" =>
          /\ (synth_last'.tool = "write_file" /\ synth_last'.parsed) =>
                ~build_succeeded' /\ ~test_passed'
          /\ (synth_last'.tool = "write_file" /\ ~synth_last'.parsed) =>
                UNCHANGED <<code_written, build_succeeded, test_passed>>
          /\ synth_pc' = "done" => built_since_write /\ tested_since_write]_vars

\* a write_file has just reset both gates, which were true when it arrived
C3_Witness ==
    /\ synth_last = SynthLast("write_file", TRUE, TRUE, {})
    /\ ~build_succeeded
    /\ ~test_passed

(***************************************************************************)
(* Claims about the host ABI and run_capability (HostSpec).                *)
(***************************************************************************)
\* the bytes ptr .. ptr+len-1 lie inside the guest's linear memory
InMemory(ptr, len) == ptr >= 0 /\ len >= 0 /\ ptr + len <= MemLen

\* the bytes of a range that lies inside memory
BytesAt(mem, ptr, len) == [i \in 1..len |-> mem[ptr + i - 1]]

\* a host function acts on the pending call in this step
HostActs == ~host_ret.done /\ host_ret'.done

\* C11: when the url or path range of a call (or, for file_write with a good
\* path, the content range) does not lie inside guest memory, the host
\* function returns -2 (-4 for the content) without panicking and leaves guest
\* memory as it was.
C11_BoundsErrorNoPanic ==
    [][(HostActs /\ has_memory) =>
          /\ ~InMemory(host_call.ptr, host_call.len) =>
                 /\ ~host_ret'.panicked
                 /\ host_ret'.code = -2
                 /\ guest_mem' = guest_mem
          /\ ( /\ host_call.fn = "file_write"
               /\ InMemory(host_call.ptr, host_call.len)
               /\ Utf8(BytesAt(guest_mem, host_call.ptr, host_call.len))
               /\ ~InMemory(host_call.ptr2, host_call.len2) ) =>
                 /\ ~host_ret'.panicked
                 /\ host_ret'.code = -4
                 /\ guest_mem' = guest_mem]_vars

\* the guest's response buffer starts at result_ptr and lies inside memory
GuestBuffer(c) == c.ptr2 >= 0 /\ c.ptr2 + HttpBufferSize <= MemLen

\* C12: when http_get, called with a good url, obtains a body longer than the
\* guest's buffer at result_ptr, it returns -6 and leaves guest memory as it
\* was.
C12_BodyLargerThanBuffer ==
    [][( /\ HostActs
         /\ host_call.fn = "http_get"
         /\ GuestBuffer(host_call)
         /\ host_ret'.env.kind = "ok"
         /\ host_ret'.env.n > HttpBufferSize
         /\ has_memory
         /\ InMemory(host_call.ptr, host_call.len)
         /\ Utf8(BytesAt(guest_mem, host_call.ptr, host_call.len)) ) =>
            /\ host_ret'.code = -6
            /\ guest_mem' = guest_mem]_vars

\* the first error the checks of the function, in their fixed order, find for
\* a call, or 0 when none applies
FirstApplicable(hm, mem, c, env) ==
    IF ~hm THEN -1
    ELSE IF ~InMemory(c.ptr, c.len) THEN -2
    ELSE IF ~Utf8(BytesAt(mem, c.ptr, c.len)) THEN -3
    ELSE IF c.fn = "http_get"
         THEN IF env.kind = "request_error" THEN -4
              ELSE IF env.kind = "text_error" THEN -5
              ELSE IF ~InMemory(c.ptr2, env.n) THEN -6
              ELSE 0
    ELSE IF c.fn = "file_read"
         THEN IF env.kind = "not_found" THEN -4
              ELSE IF env.kind = "permission_denied" THEN -5
              ELSE IF env.kind = "other" THEN -6
              ELSE IF ~InMemory(c.ptr2, env.n) THEN -7
              ELSE 0
    ELSE IF ~InMemory(c.ptr2, c.len2) THEN -4
         ELSE IF env.kind = "permission_denied" THEN -5
         ELSE IF env.kind = "other" THEN -6
         ELSE 0

\* C13: a host function that returns a code returns the first applicable
\* error code, a non-negative code only when no error applies, and leaves
\* guest memory unmodified whenever the code is negative.
C13_FirstErrorCode ==
    [][(HostActs /\ ~host_ret'.panicked) =>
          LET first == FirstApplicable(has_memory, guest_mem, host_call, host_ret'.env)
          IN  /\ first < 0 => host_ret'.code = first
              /\ host_ret'.code >= 0 => first = 0
              /\ host_ret'.code < 0 => guest_mem' = guest_mem]_vars

\* C14 as stated: stdout is returned whenever the guest returned normally or
\* exited with status 0; a non-zero exit or a trap gives an error naming the
\* capability id, never Ok.
C14_RunResult ==
    /\ run_result.end \in {"return", "exit_zero"} => run_result.ok
    /\ run_result.end \in {"exit_nonzero", "trap"} =>
           ~run_result.ok /\ run_result.names_id

\* C14: with a stdout that is valid UTF-8, stdout is returned when the guest
\* returned normally or exited with status 0, and an error naming the
\* capability id when it exited with a non-zero status or trapped; with a
\* stdout that is not valid UTF-8 an error that does not name the capability is
\* returned however the guest ended; a non-zero exit or a trap never gives Ok.
C14_RunResultUtf8 ==
    /\ (run_result.end \in {"return", "exit_zero"} /\ run_result.utf8) => run_result.ok
    /\ (run_result.end \in {"exit_nonzero", "trap"} /\ run_result.utf8) =>
           ~run_result.ok /\ run_result.names_id
    /\ (run_result.end \in GuestEnds /\ ~run_result.utf8) =>
           ~run_result.ok /\ ~run_result.names_id
    /\ run_result.end \in {"exit_nonzero", "trap"} => ~run_result.ok

\* run_capability has returned stdout for a guest that exited with status 0
C14_Witness ==
    /\ run_result.end = "exit_zero"
    /\ run_result.ok

(***************************************************************************)
(* Claims about the catalog's lifecycle (CatalogSpec).                     *)
(***************************************************************************)
Retired(status) == status \in {Legacy, Deprecated}

\* C15: a capability whose status is Legacy or Deprecated, in the store or in
\* its meta.json, does not have status Active there after any operation.
C15_NoReturnToActive ==
    [][\A id \in Ids :
          /\ Retired(store[id].status) => store'[id].status # Active
          /\ Retired(disk[id].status) =>
                 disk'[id] # NoMeta /\ StatusOfMeta(disk'[id]) # Active]_vars

\* C16: a mark_deprecated call that returns an error leaves the store and
\* meta.json as they were; one that returns Ok leaves both deprecated.
C16_MarkDeprecatedTogether ==
    [][catalog_op'.op = "mark_deprecated" =>
          IF catalog_op'.ok
          THEN /\ store'[catalog_op'.id].status = Deprecated
               /\ disk'[catalog_op'.id].status = Deprecated
          ELSE store' = store /\ disk' = disk]_vars

\* following replaced_by from id reaches an Active record within n links
RECURSIVE LeadsToActive(_, _, _)
LeadsToActive(caps, id, n) ==
    /\ id \in Ids
    /\ caps[id] # NoCap
    /\ \/ caps[id].status = Active
       \/ n > 0 /\ LeadsToActive(caps, caps[id].replaced_by, n - 1)

\* the store holds what the meta.json files say
StoreMatchesDisk == store = LoadCapabilities(disk)

\* C17: every Legacy capability has a replaced_by that resolves to a
\* capability of the catalog that is Active or leads to an Active one
\* (stated for the states in which the store and the meta.json files agree).
C17_LegacyLeadsToActive ==
    StoreMatchesDisk =>
        \A id \in Ids :
            (store[id] # NoCap /\ store[id].status = Legacy) =>
                LeadsToActive(store, store[id].replaced_by, Cardinality(Ids))

(***************************************************************************)
(* Claims about loading a capabilities root (LoadSpec).                    *)
(***************************************************************************)
\* two directories of the root declare the same id
DuplicateIdInRoot ==
    \E d1 \in Dirs, d2 \in Dirs :
        /\ d1 # d2
        /\ root[d1].kind = "meta"
        /\ root[d2].kind = "meta"
        /\ root[d1].id = root[d2].id

\* C19: a catalog that load returns has pairwise distinct ids, and load fails
\* on a root in which two directories declare the same id.
C19_UniqueIds ==
    loaded.done =>
        /\ loaded.ok =>
               \A i \in 1..Len(loaded.caps), j \in 1..Len(loaded.caps) :
                   i # j => loaded.caps[i].id # loaded.caps[j].id
        /\ DuplicateIdInRoot => ~loaded.ok

\* two directories of the root carry cached embeddings of different lengths
CachedDimsDiffer ==
    \E d1 \in Dirs, d2 \in Dirs :
        /\ root[d1].kind = "meta"
        /\ root[d2].kind = "meta"
        /\ root[d1].emb # NoEmb
        /\ root[d2].emb # NoEmb
        /\ root[d1].emb # root[d2].emb

\* C20: after a successful build every capability of the catalog has an
\* embedding whose length is the index dimension, and the build fails when
\* two embeddings differ in length.
C20_OneDimension ==
    loaded.done =>
        /\ loaded.ok =>
               \A i \in 1..Len(loaded.caps) :
                   /\ loaded.caps[i].emb \in EmbDims
                   /\ loaded.caps[i].emb = loaded.dim
        /\ CachedDimsDiffer => ~loaded.ok

\* a build succeeded on a catalog of two or more capabilities, one with a
\* cached embedding and one embedded during the build
C20_Witness ==
    /\ loaded.done
    /\ loaded.ok
    /\ Len(loaded.caps) >= 2
    /\ \E d \in Dirs : root[d].kind = "meta" /\ root[d].emb = NoEmb
    /\ \E d \in Dirs : root[d].kind = "meta" /\ root[d].emb # NoEmb

(***************************************************************************)
(* Claims about the planner and CodingAgent pipelines (PlanSpec).          *)
(***************************************************************************)
\* C18: when a synthesis returns success, a WebAssembly build of the
\* capability's source has succeeded and the source was not edited since.
C18_SuccessHasFreshBuild == plan_pc = "done" => wasm_fresh

(***************************************************************************)
(* Claims about the similarity query (RouterSpec).                         *)
(***************************************************************************)
\* C21: a query whose embedding length differs from the index dimension
\* returns an error and no results.
C21_DimensionMismatchIsError ==
    (summary.called /\ Len(summary.q) # IndexDim(index)) =>
        ~summary.ok /\ summary.ids = <<>>

\* a query with a shorter or a longer embedding than the index's was made
\* against a catalog with an Active capability
C21_Witness ==
    /\ summary.called
    /\ Len(summary.q) \in {1, 3}
    /\ ~summary.ok
    /\ \E id \in index : IsActive(store[id])

\* the Active capabilities of the index
ActiveIndexed == {id \in index : IsActive(store[id])}

\* C22: a successful query returns Min(k, number of Active capabilities)
\* Active capabilities, none of the omitted Active capabilities scores higher
\* than a returned one, and the returned ids are in descending score order.
C22_TopKActive ==
    (summary.called /\ summary.ok) =>
        /\ Len(summary.ids) = Min(summary.k, Cardinality(ActiveIndexed))
        /\ \A i \in 1..Len(summary.ids) : \A id \in ActiveIndexed \ Range(summary.ids) :
               ScoreGE(summary.q, Emb(summary.ids[i]), Emb(id))
        /\ \A i, j \in 1..Len(summary.ids) :
               i < j => ScoreGE(summary.q, Emb(summary.ids[i]), Emb(summary.ids[j]))

(***************************************************************************)
(* Claims about the turn loop (Spec).                                      *)
(***************************************************************************)
\* the step replaces the store by the reloaded catalog: only the successful
\* end of handle_mutate_capability does, and it records the new id
Reloads == pc = "tools" /\ made' # made

\* C23: the store is reloaded only when no tool call of the current response
\* is still waiting to be executed.
C23_ReloadBetweenTurns == [][Reloads => Tail(pending) = <<>>]_vars

\* the step ends run_task while a tool call is being handled
AbortsInToolCall == pc = "tools" /\ pc' = "idle"

\* C24: a run_capability call (its only Err returns are malformed arguments
\* and an unknown capability id) and a call of an unknown tool never end
\* run_task: they are answered with a tool result and the loop continues.
C24_ToolErrorsContinue ==
    [][AbortsInToolCall => last'.op \notin {"run_capability", "unknown"}]_vars

(***************************************************************************)
(* Claims about a refused complete() (SynthSpec).                          *)
(***************************************************************************)
\* the gates that are false
FalseGates ==
    (IF ~code_written THEN {"code_written"} ELSE {})
    \cup (IF ~build_succeeded THEN {"build_succeeded"} ELSE {})
    \cup (IF ~test_passed THEN {"test_passed"} ELSE {})

\* C25: a complete() with well-formed arguments that arrives while a gate is
\* false is answered with a tool result that names every false gate, leaves
\* the meta.json files unchanged, and the session goes on.
C25_RefusedCompleteNamesGates ==
    [][(synth_last'.tool = "complete" /\ synth_last'.parsed /\ FalseGates # {}) =>
          /\ synth_last'.named = FalseGates
          /\ disk' = disk
          /\ synth_pc' \in {"llm", "tools"}]_vars

(***************************************************************************)
(* Claims about repeated deprecation (CatalogSpec).                        *)
(***************************************************************************)
\* the last catalog operation was a mark_deprecated that returned Ok, and the
\* step is a mark_deprecated on the same capability that returns Ok as well
DeprecatesAgain ==
    /\ catalog_op.op = "mark_deprecated" /\ catalog_op.ok
    /\ catalog_op'.op = "mark_deprecated" /\ catalog_op'.ok
    /\ catalog_op'.id = catalog_op.id

\* C26: a second mark_deprecated call on a capability, right after the first,
\* changes neither the in-memory catalog nor the capability's meta.json.
C26_MarkDeprecatedIdempotent ==
    [][DeprecatesAgain => (store' = store /\ disk' = disk)]_vars

(***************************************************************************)
(* Claims about a capabilities root without crates/ (LoadSpec).            *)
(***************************************************************************)
\* C30: loading a capabilities root that has no crates/ subdirectory
\* succeeds with an empty catalog.
C30_MissingCratesIsEmptyCatalog ==
    (loaded.done /\ ~has_crates) => (loaded.ok /\ loaded.caps = <<>>)

(***************************************************************************)
(* Claims about the write scope of the sub-agents (WriteSpec).             *)
(***************************************************************************)
\* the file is in the capability's tests/ directory
InTests(f) == StartsWith(f, CapPath \o <<"tests">>)

\* the file is in the capability's src/ directory
InSrc(f) == StartsWith(f, CapPath \o <<"src">>)

\* C27: a write_file of the tester whose file is outside the capability's
\* tests/ directory is denied, and a write_file of the coder is accepted only
\* for a file inside the capability's src/ or tests/ directory.
C27_WriteScope ==
    /\ (fsw.phase = "tester" /\ ~InTests(fsw.target)) => ~fsw.accepted
    /\ (fsw.phase = "coder" /\ fsw.accepted) => (InSrc(fsw.target) \/ InTests(fsw.target))

(***************************************************************************)
(* Claims about the retries of the LLM client (ChatSpec).                  *)
(***************************************************************************)
\* the outcome is HTTP 429, a 5xx status or a network error
Transient(o) ==
    \/ o.kind = "network"
    \/ o.kind = "http" /\ (o.status = 429 \/ (o.status >= 500 /\ o.status <= 599))

\* C28: when a chat call has returned, it made at most three attempts; every
\* attempt but the last met a transient failure; a transient failure ended the
\* call only as the third attempt; the waits between attempts grow; and the
\* call returned Ok exactly when its last attempt got a successful response.
C28_RetryTransient ==
    chat.pc = "done" =>
        LET n == Len(chat.statuses) IN
        /\ n >= 1 /\ n <= 3
        /\ \A i \in 1..(n - 1) : Transient(chat.statuses[i])
        /\ Transient(chat.statuses[n]) => n = 3
        /\ \A i \in 1..(n - 1) : Len(chat.waits) >= i
        /\ \A i, j \in 1..Len(chat.waits) : i < j => chat.waits[i] < chat.waits[j]
        /\ chat.result = "ok" <=>
               (chat.statuses[n].kind = "http" /\ chat.statuses[n].status = 200
                /\ chat.statuses[n].body_ok)

(***************************************************************************)
(* Claims about the id of a new capability (GenSpec).                      *)
(***************************************************************************)
\* C29: the id a synthesis derives names no directory that exists, and the
\* id of the mutation agent is the base name or the base name with the
\* smallest free suffix.
C29_FreshId ==
    gen.id # <<>> =>
        /\ gen.id \notin gen.before
        /\ gen.agent = "mutation_agent" =>
              \A n \in 1..(gen.id[2] - 1) : <<gen.id[1], n>> \in gen.before

(***************************************************************************)
(* C31: a capability that scaffold_capability created is loaded as exactly *)
(* one record, whose id, summary and binary are the new id, "TODO" and the *)
(* predicted artifact path that the scaffold wrote to meta.json.           *)
(***************************************************************************)
ScaffoldedRecords ==
    {i \in DOMAIN scaf.records : scaf.records[i].id = scaf.new_id}

C31_ScaffoldLoadsBack ==
    (scaf.pc = "loaded_scaffold" /\ scaf.ok) =>
        /\ Cardinality(ScaffoldedRecords) = 1
        /\ \A i \in ScaffoldedRecords :
              /\ scaf.records[i].summary = "TODO"
              /\ scaf.records[i].binary = <<BinaryPath(scaf.new_id)>>

C31_Witness ==
    /\ scaf.pc = "loaded_scaffold"
    /\ scaf.ok
    /\ Len(scaf.records) = 3
    /\ \E i \in DOMAIN scaf.records : scaf.records[i].id # scaf.new_id

(***************************************************************************)
(* C39: scaffold_capability and copy_capability return an error and write  *)
(* nothing when crates/<new_id> exists, and no creation changes a          *)
(* directory that existed before it.                                       *)
(***************************************************************************)
C39_ExistingDirUntouched ==
    [][scaf'.pc \in {"scaffold", "copy"} =>
         /\ \A d \in ScafIds :
               scaf.crates[d] # NoDir => scaf'.crates[d] = scaf.crates[d]
         /\ scaf.crates[scaf'.new_id] # NoDir =>
               (~scaf'.ok /\ scaf'.crates = scaf.crates)]_vars

C39_Witness ==
    /\ scaf.pc \in {"scaffold", "copy"}
    /\ ~scaf.ok
    /\ scaf.new_id = "n1"
    /\ scaf.crates["n1"].meta # NoMetaFile
    /\ scaf.crates["n1"].meta.id = "n1"
    /\ scaf.crates["n1"].code = "stub"
    /\ scaf.crates["a_v1"] # NoDir

(***************************************************************************)
(* C32: the planner's `complete` tool is accepted only when the most       *)
(* recent test run passed and no coder or tester sub-agent was started     *)
(* after that run.                                                         *)
(***************************************************************************)
CompleteAccepted == plan_kind = "planner" /\ plan_pc = "tools" /\ plan_pc' = "done"

C32_CompleteNeedsCurrentTest ==
    [][CompleteAccepted => (tests_passed /\ ~agent_since_test)]_vars

(***************************************************************************)
(* C33: a coder loop ends with success on a DONE text only when the tests  *)
(* pass and then the WebAssembly build succeeds while that response is     *)
(* handled; after a DONE that does not end the session and after every     *)
(* other response without tool calls a user message is pushed and the      *)
(* loop goes on to its next step; at max_steps the session fails.          *)
(***************************************************************************)
CodingReplyHandled ==
    /\ plan_kind = "coding_agent"
    /\ plan_pc = "llm"
    /\ plan_reply'.kind \in {"done_text", "text", "empty"}

CoderReturnsOk == plan_pc = "tools" /\ plan_reply'.kind = "coder_done"

C33_DoneSentinel ==
    [][/\ CodingReplyHandled =>
             IF plan_reply'.kind = "done_text" /\ plan_reply'.tested /\ plan_reply'.built
             THEN plan_pc' \in {"done", "failed"}
             ELSE /\ plan_reply'.appended
                  /\ plan_pc' = "llm"
                  /\ plan_step' = plan_step + 1
       /\ CoderReturnsOk => (plan_reply'.tested /\ plan_reply'.built)
       /\ (plan_pc = "llm" /\ ~PlanLoopRuns(plan_kind, plan_step)) => plan_pc' = "failed"]_vars

(***************************************************************************)
(* C34: each consecutive-failure counter grows by one with every failed    *)
(* build (test), returns to zero with a successful one and is changed by   *)
(* nothing else, write_file included; the tool result of a failed build    *)
(* (test) carries the loop-detection text exactly when the counter has     *)
(* reached 3.                                                              *)
(***************************************************************************)
Ran(tool, how) == synth_last'.tool = tool /\ synth_last'.ran = how /\ synth_pc = "tools"

C34_FailureStreaks ==
    [][/\ consecutive_build_failures' =
             IF Ran("build", "failed") THEN consecutive_build_failures + 1
             ELSE IF Ran("build", "ok") THEN 0
             ELSE consecutive_build_failures
       /\ consecutive_test_failures' =
             IF Ran("test", "failed") THEN consecutive_test_failures + 1
             ELSE IF Ran("test", "ok") THEN 0
             ELSE consecutive_test_failures
       /\ synth_pc = "tools" =>
             (synth_last'.hint <=>
                \/ Ran("build", "failed") /\ consecutive_build_failures' >= 3
                \/ Ran("test", "failed") /\ consecutive_test_failures' >= 3)]_vars

C34_Witness ==
    /\ synth_last.tool = "build"
    /\ synth_last.hint
    /\ consecutive_build_failures = 3
    /\ consecutive_test_failures = 2
    /\ ~tested_since_write

(***************************************************************************)
(* C37: while test_passed is true, a test has passed since the last file   *)
(* write and on an artifact built since that write; while build_succeeded  *)
(* is true, code_written is true.                                          *)
(***************************************************************************)
C37_GatesAreCurrent ==
    /\ test_passed => (tested_since_write /\ built_since_write)
    /\ build_succeeded => (code_written /\ built_since_write)

\* a test passed, then a rebuild of the same source failed
C37_Witness ==
    /\ test_passed
    /\ ~build_succeeded
    /\ synth_last.tool = "build"
    /\ synth_last.ran = "failed"

(***************************************************************************)
(* C35: when run_tester_agent returns, the regular files directly in src/  *)
(* are the files, with the contents, that were there when it started.      *)
(***************************************************************************)
TesterReturns == fsw.phase = "tester" /\ fsw'.phase = "none"

C35_TesterLeavesSrc == [][TesterReturns => fsw'.src = fsw.backup]_vars

(***************************************************************************)
(* C36: a reload that fails leaves the store's capability list and index   *)
(* as they were; a reload that succeeds replaces both by what is on disk;  *)
(* the index always holds the capabilities of the list it is stored with.  *)
(***************************************************************************)
\* the synthesis succeeded and CapabilityStore::reload returned Err
ReloadFails ==
    /\ pc = "tools"
    /\ last'.op = "mutate_capability"
    /\ last'.ret = "err"
    /\ last'.id # NoId
    /\ failed_synth' = failed_synth

C36_ReloadAllOrNothing ==
    [][/\ ReloadFails => (store' = store /\ index' = index)
       /\ Reloads => (store' = LoadCapabilities(disk') /\ index' = IdsOf(store'))
       /\ index' = IdsOf(store')]_vars

\* a reload has failed: the new capability is on disk and not in the store
C36_Witness ==
    /\ last.op = "mutate_capability"
    /\ last.ret = "err"
    /\ last.id # NoId
    /\ last.id \notin failed_synth
    /\ disk[last.id] # NoMeta
    /\ store[last.id] = NoCap
    /\ last.id \notin index

(***************************************************************************)
(* C38: every file a scoped write_file has created or modified lies in     *)
(* one of the handler's scope directories, whatever path was sent.         *)
(***************************************************************************)
InScope(f) == \E scope \in WriteScopes("coder") \cup WriteScopes("tester") : StartsWith(f, scope)

C38_WritesStayInScope == \A f \in fsw.written : InScope(f)

(***************************************************************************)
(* C40: every request of RuntimeAgent::run_task has at most 8 input items, *)
(* begins with the user task, and each function_call_output in it comes    *)
(* right after the function_call with the same call id, truncated or not.  *)
(***************************************************************************)
C40_RequestWellFormed ==
    ctx.sent # <<>> =>
        /\ Len(ctx.sent) <= 8
        /\ ctx.sent[1] = UserItem
        /\ \A i \in DOMAIN ctx.sent :
              ctx.sent[i].type = "function_call_output" =>
                  /\ i > 1
                  /\ ctx.sent[i - 1] = FunctionCall(ctx.sent[i].call_id)

\* a request sent after a truncation: seven items from a longer history
C40_Witness ==
    /\ Len(ctx.sent) = 1 + KeepLast
    /\ ctx.step > 4
    /\ ctx.sent[2] = FunctionCall(2)
    /\ ctx.sent[3] = FunctionOutput(2)
    /\ ctx.sent[4] = FunctionCall(1)

TypeOK ==
    /\ agent_kind \in AgentKinds
    /\ pc \in {"idle", "llm", "tools", "exit"}
    /\ step \in 0..MaxSteps
    /\ outcome \in {"none", "answer", "error"}
    /\ \A id \in Ids : failure_counts[id] \in 0..MaxEvents
    /\ synth_pc \in {"off", "llm", "tools", "done", "failed"}
    /\ synth_step \in 0..SynthMaxSteps
    /\ synth_calls \in 0..MaxCalls
    /\ consecutive_build_failures \in 0..MaxStreak
    /\ consecutive_test_failures \in 0..MaxStreak
    /\ last_test_error \in {"none"} \cup TestErrors
    /\ summary.called \in BOOLEAN
    /\ summary.ok \in BOOLEAN
    /\ Range(summary.ids) \subseteq Ids

====
